---------------------------- MODULE Spec2Model ----------------------------
(***************************************************************************)
(* A model of the OxCal core: the term service (termService.js), which     *)
(* loads the term table once and answers lookups against it, the query     *)
(* parser (queryParser.js), which turns a query string into a parsed       *)
(* query, the search engine (searchEngine.js), the suggestions of the      *)
(* search box (suggestions.js) and the theme manager (themeManager.js).    *)
(* Strings that the code inspects character by character are               *)
(* sequences of one-character strings; strings that the code only compares *)
(* or uses as keys are TLA+ strings.                                       *)
(***************************************************************************)
EXTENDS Integers, Sequences, FiniteSets, TLC

VARIABLES
    termsData,    \* termService.js `termsData`: Null or the installed instance
    calls,        \* the invocations of loadTermsData and where each stands
    fetches,      \* how many times fetch('/terms.json') has been called
    firstLoaded,  \* history: the instance the first successful load returned
    lookup,       \* the last lookup made on the term service and its outcome
    tzOffset,     \* the process's time zone: local time minus UTC, in minutes
    input,        \* the tokens the query was written from
    query,        \* the argument passed to parseQuery
    parsed,       \* what parseQuery returned for query, or NotParsed
    result,       \* what search returned for query, or NoResult
    summary,      \* what getResultSummary returned for result, or NoSummary
    suggested,    \* the last call of generateSuggestions and what it returned
    themeManager, \* themeManager.js: the fields of the singleton ThemeManager
    localStorage, \* the browser's localStorage: whether it works, and its 'oxcal-theme' item
    matchMedia,   \* the media query '(prefers-color-scheme: dark)' and its listeners
    document,     \* what applyTheme writes on the document
    userChose     \* history: the user has toggled or set a theme

vars == <<termsData, calls, fetches, firstLoaded, lookup, tzOffset, input, query, parsed,
          result, summary, suggested, themeManager, localStorage, matchMedia, document,
          userChose>>

loadVars == <<termsData, calls, fetches, firstLoaded, lookup, tzOffset>>
parseVars == <<input, query, parsed, result, summary>>
themeVars == <<themeManager, localStorage, matchMedia, document, userChose>>
uiVars == <<suggested, themeVars>>

-----------------------------------------------------------------------------
(* Bounds of the model.                                                    *)

\* Number of loadTermsData invocations in one run.
MaxCalls == 3

\* Number of loadTermsData invocations in a run that also makes lookups.
MaxLookupCalls == 2

-----------------------------------------------------------------------------
(* JavaScript values.                                                      *)

Null == [t |-> "null"]
Undefined == [t |-> "undefined"]

\* A thrown Error with its message.
Throw(msg) == [t |-> "throw", msg |-> msg]

Threw(v) == v.t = "throw"

\* JavaScript truthiness of the values the model uses.
Truthy(v) ==
    CASE v.t = "null" -> FALSE
      [] v.t = "undefined" -> FALSE
      [] v.t = "string" -> v.s # <<>>
      [] OTHER -> TRUE

\* A JavaScript string value; s is its sequence of characters.
JsString(s) == [t |-> "string", s |-> s]

JsNumber(n) == [t |-> "number", n |-> n]

\* A plain object; props is a record of its own properties.
JsObject(props) == [t |-> "object", props |-> props]

\* obj[key] for a plain object: the own property, or undefined.
GetProp(obj, key) ==
    IF obj.t = "object" /\ key \in DOMAIN obj.props THEN obj.props[key] ELSE Undefined

\* JavaScript `v || null`.
OrNull(v) == IF Truthy(v) THEN v ELSE Null

-----------------------------------------------------------------------------
(* Characters and strings.                                                 *)

Digits == <<"0", "1", "2", "3", "4", "5", "6", "7", "8", "9">>

LowerLetters ==
    <<"a", "b", "c", "d", "e", "f", "g", "h", "i", "j", "k", "l", "m",
      "n", "o", "p", "q", "r", "s", "t", "u", "v", "w", "x", "y", "z">>

UpperLetters ==
    <<"A", "B", "C", "D", "E", "F", "G", "H", "I", "J", "K", "L", "M",
      "N", "O", "P", "Q", "R", "S", "T", "U", "V", "W", "X", "Y", "Z">>

Range(f) == {f[i] : i \in DOMAIN f}

IsDigit(c) == c \in Range(Digits)

\* The regular expression class \s, for the characters the model uses.
IsSpace(c) == c \in {" ", "\t"}

\* The regular expression class \w.
IsWordChar(c) ==
    c \in Range(Digits) \cup Range(LowerLetters) \cup Range(UpperLetters) \cup {"_"}

IndexIn(seq, c) == CHOOSE i \in DOMAIN seq : seq[i] = c

DigitValue(c) == IndexIn(Digits, c) - 1

\* String.prototype.toLowerCase, character by character.
LowerChar(c) ==
    IF c \in Range(UpperLetters) THEN LowerLetters[IndexIn(UpperLetters, c)] ELSE c

toLowerCase(s) == [i \in DOMAIN s |-> LowerChar(s[i])]

UpperChar(c) ==
    IF c \in Range(LowerLetters) THEN UpperLetters[IndexIn(LowerLetters, c)] ELSE c

toUpperCase(s) == [i \in DOMAIN s |-> UpperChar(s[i])]

\* The TLA+ string spelled by a sequence of characters (used as a key).
RECURSIVE Str(_)
Str(s) == IF s = <<>> THEN "" ELSE Head(s) \o Str(Tail(s))

\* Number.prototype.toString for a natural number, as characters.
RECURSIVE NatChars(_)
NatChars(n) ==
    IF n < 10 THEN <<Digits[n + 1]>>
    ELSE NatChars(n \div 10) \o <<Digits[(n % 10) + 1]>>

\* String(n) for an integer.
NumChars(n) == IF n < 0 THEN <<"-">> \o NatChars(-n) ELSE NatChars(n)

\* String.prototype.padStart(2, '0').
padStart2(s) == IF Len(s) < 2 THEN <<"0">> \o s ELSE s

\* String.prototype.slice(-2).
sliceLast2(s) == IF Len(s) <= 2 THEN s ELSE SubSeq(s, Len(s) - 1, Len(s))

\* parseInt of a non-empty run of digits.
RECURSIVE parseIntDigits(_)
parseIntDigits(s) ==
    IF s = <<>> THEN 0
    ELSE 10 * parseIntDigits(SubSeq(s, 1, Len(s) - 1)) + DigitValue(s[Len(s)])

-----------------------------------------------------------------------------
(* Dates.  A Date is an instant in minutes since 1970-01-01T00:00Z, or the *)
(* Invalid Date.  The one sub-minute instant of the code, 23:59:59.999, is *)
(* kept as minute 23:59: every other instant of the model is a whole       *)
(* minute, so every comparison with it comes out the same.                 *)

MinutesPerDay == 1440

JsDate(time) == [t |-> "date", valid |-> TRUE, time |-> time]

InvalidDate == [t |-> "date", valid |-> FALSE, time |-> 0]

IsLeapYear(y) == (y % 4 = 0 /\ y % 100 # 0) \/ y % 400 = 0

DaysInMonth(y, m) ==
    IF m = 2 THEN (IF IsLeapYear(y) THEN 29 ELSE 28)
    ELSE IF m \in {4, 6, 9, 11} THEN 30 ELSE 31

\* Days from 1970-01-01 to the civil date y-m-d (proleptic Gregorian).
DaysFromCivil(y, m, d) ==
    LET yy == IF m <= 2 THEN y - 1 ELSE y
        era == yy \div 400
        yoe == yy - era * 400
        mp == IF m > 2 THEN m - 3 ELSE m + 9
        doy == (153 * mp + 2) \div 5 + d - 1
        doe == yoe * 365 + yoe \div 4 - yoe \div 100 + doy
    IN era * 146097 + doe - 719468

\* The civil date [y, m, d] of a day number.
CivilFromDays(z0) ==
    LET z == z0 + 719468
        era == z \div 146097
        doe == z - era * 146097
        yoe == (doe - doe \div 1460 + doe \div 36524 - doe \div 146096) \div 365
        doy == doe - (365 * yoe + yoe \div 4 - yoe \div 100)
        mp == (5 * doy + 2) \div 153
        d == doy - (153 * mp + 2) \div 5 + 1
        m == IF mp < 10 THEN mp + 3 ELSE mp - 9
        y == yoe + era * 400 + (IF m <= 2 THEN 1 ELSE 0)
    IN [y |-> y, m |-> m, d |-> d]

\* 'YYYY-MM-DD' as characters.
IsoChars(y, m, d) ==
    NatChars(y) \o <<"-">> \o padStart2(NatChars(m)) \o <<"-">> \o padStart2(NatChars(d))

AllDigits(s) == \A i \in DOMAIN s : IsDigit(s[i])

\* new Date(s) for a string s: the date-only form YYYY-MM-DD of an existing
\* day is that day's midnight UTC; anything else is the Invalid Date.
DateFromString(s) ==
    IF /\ Len(s) = 10
       /\ s[5] = "-" /\ s[8] = "-"
       /\ AllDigits(SubSeq(s, 1, 4)) /\ AllDigits(SubSeq(s, 6, 7)) /\ AllDigits(SubSeq(s, 9, 10))
    THEN LET y == parseIntDigits(SubSeq(s, 1, 4))
             m == parseIntDigits(SubSeq(s, 6, 7))
             d == parseIntDigits(SubSeq(s, 9, 10))
         IN IF m \in 1..12 /\ d >= 1 /\ d <= DaysInMonth(y, m)
            THEN JsDate(DaysFromCivil(y, m, d) * MinutesPerDay)
            ELSE InvalidDate
    ELSE InvalidDate

\* The local civil date of an instant in the process's time zone.
LocalCivil(time, tz) == CivilFromDays((time + tz) \div MinutesPerDay)

\* Date.prototype.setHours(23, 59, 59, 999): the end of the instant's local day.
setHoursEndOfDay(time, tz) ==
    ((time + tz) \div MinutesPerDay) * MinutesPerDay + (MinutesPerDay - 1) - tz

-----------------------------------------------------------------------------
(* The term table resource, /terms.json.                                   *)

WeekEntry(s, e) == JsObject([start |-> JsString(s), end |-> JsString(e)])

Year2425 ==
    JsObject([
        year |-> JsString(<<"2", "0", "2", "4", "-", "2", "5">>),
        michaelmas |-> JsObject([
            week0 |-> WeekEntry(IsoChars(2024, 10, 6), IsoChars(2024, 10, 12)),
            week1 |-> WeekEntry(IsoChars(2024, 10, 13), IsoChars(2024, 10, 19)),
            week8 |-> WeekEntry(IsoChars(2024, 12, 1), IsoChars(2024, 12, 7))]),
        hilary |-> JsObject([
            week1 |-> WeekEntry(IsoChars(2025, 1, 19), IsoChars(2025, 1, 25)),
            week8 |-> WeekEntry(IsoChars(2025, 3, 9), IsoChars(2025, 3, 15))]),
        trinity |-> JsObject([
            week1 |-> WeekEntry(IsoChars(2025, 4, 27), IsoChars(2025, 5, 3)),
            week2 |-> WeekEntry(IsoChars(2025, 5, 4), IsoChars(2025, 5, 10))])])

Year2526 ==
    JsObject([
        year |-> JsString(<<"2", "0", "2", "5", "-", "2", "6">>),
        michaelmas |-> JsObject([
            week1 |-> WeekEntry(IsoChars(2025, 10, 12), IsoChars(2025, 10, 18))])])

\* week6 ends on its Wednesday: the loader installs whatever document the
\* server sends, and searchDayTermWeek tests for a day beyond the end of
\* the week.
Year2627 ==
    JsObject([
        year |-> JsString(<<"2", "0", "2", "6", "-", "2", "7">>),
        michaelmas |-> JsObject([
            week5 |-> WeekEntry(IsoChars(2026, 11, 8), IsoChars(2026, 11, 14)),
            week6 |-> WeekEntry(IsoChars(2026, 11, 15), IsoChars(2026, 11, 18))])])

\* The document a successful fetch and response.json() yield.
TermsJson == JsObject([terms |-> <<Year2425, Year2526, Year2627>>])

-----------------------------------------------------------------------------
(* termService.js: the lookups.  Each operator returns the JavaScript      *)
(* value the function returns, or Throw(msg) when it throws.               *)

NotLoadedMsg == "Terms data not loaded. Call loadTermsData() first."

\* The object a successful response.json() creates: every call creates a
\* new one (id tells them apart) with the content of the resource.
TableInstance(id) == [t |-> "object", id |-> id, props |-> TermsJson.props]

\* termsData.terms.find(t => t.year === year): the first record of that
\* year, or undefined.
FindYear(terms, year) ==
    LET hits == {i \in DOMAIN terms : GetProp(terms[i], "year") = year}
    IN IF hits = {} THEN Undefined
       ELSE terms[CHOOSE i \in hits : \A j \in hits : i <= j]

\* getYearData without its guard: the unloaded table reads as "no such
\* year" instead of throwing.
getYearData_NoGuard(year) ==
    IF ~Truthy(termsData) THEN Null
    ELSE OrNull(FindYear(termsData.props.terms, year))

getYearData(year) ==
    IF ~Truthy(termsData) THEN Throw(NotLoadedMsg)
    ELSE OrNull(FindYear(termsData.props.terms, year))

getTermData(year, termName) ==
    LET OfYear(yearData) ==
            IF Threw(yearData) THEN yearData
            ELSE IF ~Truthy(yearData) THEN Null
            ELSE IF termName.t # "string"
                 THEN Throw("TypeError: termName.toLowerCase is not a function")
            ELSE OrNull(GetProp(yearData, Str(toLowerCase(termName.s))))
    IN OfYear(getYearData(year))

\* getWeekData without `if (!termData) return null`: a property of null
\* is read.
getWeekData_NoTermTest(year, termName, weekNumber) ==
    LET OfTerm(termData) ==
            IF Threw(termData) THEN termData
            ELSE IF ~Truthy(termData)
                 THEN Throw("TypeError: Cannot read properties of null")
            ELSE OrNull(GetProp(termData, "week" \o Str(NumChars(weekNumber))))
    IN OfTerm(getTermData(year, termName))

getWeekData(year, termName, weekNumber) ==
    LET OfTerm(termData) ==
            IF Threw(termData) THEN termData
            ELSE IF ~Truthy(termData) THEN Null
            ELSE OrNull(GetProp(termData, "week" \o Str(NumChars(weekNumber))))
    IN OfTerm(getTermData(year, termName))

TermOrder ==
    <<<<"m", "i", "c", "h", "a", "e", "l", "m", "a", "s">>,
      <<"h", "i", "l", "a", "r", "y">>,
      <<"t", "r", "i", "n", "i", "t", "y">>>>

\* The template literal `week${weekNum}` for the week numbers of the scan.
WeekKey == [w \in 0..12 |-> "week" \o Str(NatChars(w))]

\* new Date(s) for the date strings of the resource, evaluated once.
ResourceDates ==
    LET terms == TermsJson.props.terms
    IN UNION {UNION {{GetProp(GetProp(GetProp(terms[i], Str(tn)), WeekKey[w]), b)
                        : b \in {"start", "end"}}
                     : w \in {v \in 0..12 :
                                 Truthy(GetProp(GetProp(terms[i], Str(tn)), WeekKey[v]))}}
              : i \in DOMAIN terms, tn \in Range(TermOrder)}

ResourceDateValue == [v \in ResourceDates |-> DateFromString(v.s)]

\* new Date(v) for a string value v.
NewDate(v) == IF v \in ResourceDates THEN ResourceDateValue[v] ELSE DateFromString(v.s)

\* The k-th slot findTermWeekForDate visits: years in table order, then
\* the three terms, then weeks 0 to 12.
ScanSlot(k) ==
    [yi |-> ((k - 1) \div 39) + 1,
     term |-> TermOrder[(((k - 1) % 39) \div 13) + 1],
     week |-> (k - 1) % 13]

\* The slots of a table, in the order of the scan.
ScanSlots(terms) == 1..(39 * Len(terms))

\* yearData[term] and termData[weekKey] of a slot; a slot without term data
\* or week data is skipped (undefined).
WeekDataAt(terms, k) ==
    LET OfTerm(termData, slot) ==
            IF ~Truthy(termData) THEN Undefined
            ELSE GetProp(termData, WeekKey[slot.week])
        OfSlot(slot) == OfTerm(GetProp(terms[slot.yi], Str(slot.term)), slot)
    IN OfSlot(ScanSlot(k))

\* searchDate >= startDate && searchDate <= endDate, after
\* endDate.setHours(23, 59, 59, 999); a comparison with an Invalid Date is
\* false.
WithinWeek(startDate, endDate, time) ==
    /\ startDate.valid /\ endDate.valid
    /\ time >= startDate.time
    /\ time <= setHoursEndOfDay(endDate.time, tzOffset)

\* The test of one slot of the scan.
SlotContains(weekData, time) ==
    /\ Truthy(weekData)
    /\ WithinWeek(NewDate(GetProp(weekData, "start")),
                  NewDate(GetProp(weekData, "end")), time)

\* The object returned for the slot k.
SlotResult(terms, k) ==
    LET OfSlot(slot) ==
            JsObject([year |-> GetProp(terms[slot.yi], "year"),
                      term |-> JsString(slot.term),
                      week |-> JsNumber(slot.week),
                      weekData |-> WeekDataAt(terms, k)])
    IN OfSlot(ScanSlot(k))

findTermWeekForDate(date) ==
    LET FirstOf(terms, hits) ==
            IF hits = {} THEN Null
            ELSE SlotResult(terms, CHOOSE h \in hits : \A j \in hits : h <= j)
        Scan(terms, searchDate) ==
            IF ~searchDate.valid THEN Throw("RangeError: Invalid time value")
            ELSE FirstOf(terms, {k \in ScanSlots(terms) :
                                    SlotContains(WeekDataAt(terms, k), searchDate.time)})
    IN IF ~Truthy(termsData) THEN Throw(NotLoadedMsg)
       ELSE IF date.t \notin {"string", "date"}
            THEN Throw("TypeError: searchDate.toISOString is not a function")
       ELSE Scan(termsData.props.terms, IF date.t = "string" THEN NewDate(date) ELSE date)

getAvailableYears ==
    IF ~Truthy(termsData) THEN Throw(NotLoadedMsg)
    ELSE LET terms == termsData.props.terms
         IN [t |-> "array", items |-> [i \in DOMAIN terms |-> GetProp(terms[i], "year")]]

\* getCurrentAcademicYear with the test currentMonth >= 6.
getCurrentAcademicYear_FromJune(now) ==
    LET ByMonth(local) ==
            IF local.m >= 6
            THEN JsString(NumChars(local.y) \o <<"-">> \o sliceLast2(NumChars(local.y + 1)))
            ELSE JsString(NumChars(local.y - 1) \o <<"-">> \o sliceLast2(NumChars(local.y)))
        OfTermWeek(termWeek) ==
            IF Threw(termWeek) THEN termWeek
            ELSE IF Truthy(termWeek) THEN GetProp(termWeek, "year")
            ELSE ByMonth(LocalCivil(now, tzOffset))
    IN OfTermWeek(findTermWeekForDate(JsDate(now)))

\* now is the instant `new Date()` yields.
getCurrentAcademicYear(now) ==
    LET ByMonth(local) ==
            IF local.m >= 7
            THEN JsString(NumChars(local.y) \o <<"-">> \o sliceLast2(NumChars(local.y + 1)))
            ELSE JsString(NumChars(local.y - 1) \o <<"-">> \o sliceLast2(NumChars(local.y)))
        OfTermWeek(termWeek) ==
            IF Threw(termWeek) THEN termWeek
            ELSE IF Truthy(termWeek) THEN GetProp(termWeek, "year")
            ELSE ByMonth(LocalCivil(now, tzOffset))
    IN OfTermWeek(findTermWeekForDate(JsDate(now)))

getFullTermDates(year, termName) ==
    LET OfWeeks(week1, week8) ==
            IF Threw(week1) THEN week1
            ELSE IF Threw(week8) THEN week8
            ELSE IF ~Truthy(week1) \/ ~Truthy(week8) THEN Null
            ELSE JsObject([start |-> GetProp(week1, "start"), end |-> GetProp(week8, "end")])
    IN OfWeeks(getWeekData(year, termName, 1), getWeekData(year, termName, 8))

-----------------------------------------------------------------------------
(* termService.js: loadTermsData.  An invocation runs to its first await,  *)
(* then resumes when fetch settles, then when response.json() settles.     *)

CallIds == 1..MaxCalls

\* pc: where the invocation stands; seen: how its last await settled; ret: the
\* id of the instance its promise resolved to; fetched: whether it called
\* fetch.  History, fixed when it is called: pending, the invocations then
\* awaiting with no load completed yet; late, whether a load had succeeded.
IdleCall ==
    [pc |-> "idle", seen |-> "none", ret |-> 0, fetched |-> FALSE,
     pending |-> {}, late |-> FALSE]

FetchOutcomes == {"ok", "http-error", "network-error"}

JsonOutcomes == {"parsed", "syntax-error"}

InFlight(c) == calls[c].pc \in {"fetch", "json"}

\* From the call to the first await: [pc, ret, fetched] of the invocation.
loadTermsDataEnter ==
    IF Truthy(termsData)
    THEN [pc |-> "resolved", ret |-> termsData.id, fetched |-> FALSE]
    ELSE [pc |-> "fetch", ret |-> 0, fetched |-> TRUE]

\* From the settling of fetch to the next await or to the rethrow.
loadTermsDataAfterFetch(outcome) ==
    IF outcome = "network-error" THEN "rejected"
    ELSE IF outcome = "http-error" THEN "rejected"
    ELSE "json"

\* loadTermsData with the assignment moved up: termsData is assigned
\* before the body is known to parse.
loadTermsDataAfterJson_EarlyInstall(c, outcome) ==
    IF outcome = "parsed"
    THEN [pc |-> "resolved", ret |-> c, termsData |-> TableInstance(c)]
    ELSE [pc |-> "rejected", ret |-> 0, termsData |-> TableInstance(c)]

\* From the settling of response.json() to the end: what invocation c
\* leaves in termsData and how its promise settles.
loadTermsDataAfterJson(c, outcome) ==
    IF outcome = "parsed"
    THEN [pc |-> "resolved", ret |-> c, termsData |-> TableInstance(c)]
    ELSE [pc |-> "rejected", ret |-> 0, termsData |-> termsData]

\* loadTermsData() is called: invocations are numbered in call order.
CallLoad(c) ==
    /\ calls[c].pc = "idle"
    /\ \A d \in CallIds : d < c => calls[d].pc # "idle"
    /\ LET e == loadTermsDataEnter
       IN /\ calls' = [calls EXCEPT ![c] =
                 [pc |-> e.pc, seen |-> "none", ret |-> e.ret, fetched |-> e.fetched,
                  pending |-> IF firstLoaded = 0
                              THEN {d \in CallIds : InFlight(d)} ELSE {},
                  late |-> firstLoaded # 0]]
          /\ fetches' = IF e.fetched THEN fetches + 1 ELSE fetches
    /\ UNCHANGED <<termsData, firstLoaded, lookup, tzOffset, parseVars, uiVars>>

FetchSettles(c) ==
    /\ calls[c].pc = "fetch"
    /\ \E outcome \in FetchOutcomes :
           calls' = [calls EXCEPT ![c].pc = loadTermsDataAfterFetch(outcome),
                                  ![c].seen = outcome]
    /\ UNCHANGED <<termsData, fetches, firstLoaded, lookup, tzOffset, parseVars, uiVars>>

JsonSettles(c) ==
    /\ calls[c].pc = "json"
    /\ \E outcome \in JsonOutcomes :
           LET r == loadTermsDataAfterJson(c, outcome)
           IN /\ calls' = [calls EXCEPT ![c].pc = r.pc, ![c].ret = r.ret,
                                         ![c].seen = outcome]
              /\ termsData' = r.termsData
              /\ firstLoaded' = IF r.pc = "resolved" /\ firstLoaded = 0
                                THEN r.ret ELSE firstLoaded
    /\ UNCHANGED <<fetches, lookup, tzOffset, parseVars, uiVars>>

-----------------------------------------------------------------------------
(* Lookups made by the callers of the term service.                        *)

NoLookup == [op |-> "none", out |-> Undefined]

LookupYears == {JsString(<<"2", "0", "2", "4", "-", "2", "5">>),
                JsString(<<"2", "0", "3", "0", "-", "3", "1">>)}

LookupTermNames == {JsString(<<"M", "i", "c", "h", "a", "e", "l", "m", "a", "s">>), Undefined}

LookupDates == {JsString(IsoChars(2024, 10, 15)), Null}

LookupNows == {DaysFromCivil(2024, 10, 15) * MinutesPerDay + 600}

\* Every lookup the model makes, with the value it returns or throws.
LookupResults ==
    {[op |-> "getYearData", out |-> getYearData(y)] : y \in LookupYears}
    \cup {[op |-> "getTermData", out |-> getTermData(y, n)] :
             y \in LookupYears, n \in LookupTermNames}
    \cup {[op |-> "getWeekData", out |-> getWeekData(y, n, 1)] :
             y \in LookupYears, n \in LookupTermNames}
    \cup {[op |-> "findTermWeekForDate", out |-> findTermWeekForDate(d)] :
             d \in LookupDates}
    \cup {[op |-> "getAvailableYears", out |-> getAvailableYears]}
    \cup {[op |-> "getFullTermDates", out |-> getFullTermDates(y, n)] :
             y \in LookupYears, n \in LookupTermNames}
    \cup {[op |-> "getCurrentAcademicYear", out |-> getCurrentAcademicYear(now)] :
             now \in LookupNows}

LookupOps == {r.op : r \in LookupResults}

Lookup ==
    /\ \E r \in LookupResults : lookup' = r
    /\ UNCHANGED <<termsData, calls, fetches, firstLoaded, tzOffset, parseVars, uiVars>>

-----------------------------------------------------------------------------
(* The term service as a state machine.                                    *)

TimeZones == {-300, 60}

NotParsed == [type |-> "none"]

NoQuery == Undefined

NoResult == [type |-> "none"]

NoSummary == Undefined

\* generateSuggestions has not been called.
NoSuggestion == [op |-> "none"]

THEME_LIGHT == JsString(<<"l", "i", "g", "h", "t">>)

THEME_DARK == JsString(<<"d", "a", "r", "k">>)

\* new ThemeManager().
NewThemeManager == [currentTheme |-> Null, initialized |-> FALSE]

\* What applyTheme writes on the document, before it has written.
NewDocument ==
    [dataTheme |-> Null, rootClass |-> "", bodyClass |-> "", metaThemeColor |-> ""]

\* The suggestions and the theme manager before they are used, in a browser
\* of a user who has stored nothing and whose system is light.
InitUi ==
    /\ suggested = NoSuggestion
    /\ themeManager = NewThemeManager
    /\ localStorage = [available |-> TRUE, item |-> Null]
    /\ matchMedia = [supported |-> TRUE, matches |-> FALSE, listeners |-> 0]
    /\ document = NewDocument
    /\ userChose = FALSE

InitLoad ==
    /\ termsData = Null
    /\ calls = [c \in CallIds |-> IdleCall]
    /\ fetches = 0
    /\ firstLoaded = 0
    /\ lookup = NoLookup
    /\ tzOffset \in TimeZones

InitParse ==
    /\ input = <<>>
    /\ query = NoQuery
    /\ parsed = NotParsed
    /\ result = NoResult
    /\ summary = NoSummary

Init == InitLoad /\ InitParse /\ InitUi

\* The invocations of loadTermsData, interleaved at their awaits.
Next ==
    \/ \E c \in CallIds : CallLoad(c)
    \/ \E c \in CallIds : FetchSettles(c)
    \/ \E c \in CallIds : JsonSettles(c)

Spec == Init /\ [][Next]_vars

\* Lookups made at any moment before, during and after loads.
NextLookup ==
    \/ \E c \in 1..MaxLookupCalls : CallLoad(c)
    \/ \E c \in 1..MaxLookupCalls : FetchSettles(c)
    \/ \E c \in 1..MaxLookupCalls : JsonSettles(c)
    \/ Lookup

SpecLookup == Init /\ [][NextLookup]_vars

-----------------------------------------------------------------------------
(* Properties of loadTermsData and of the lookups.                         *)

Failures == {"http-error", "network-error", "syntax-error"}

Resolved(c) == calls[c].pc = "resolved"

Rejected(c) == calls[c].pc = "rejected"

\* C1: a call made while an earlier call is still awaiting, no load having
\* completed, does not fetch again, and when both resolve they resolve to
\* the same instance.
C1_ConcurrentCallsShareOneFetch ==
    \A d \in CallIds : \A c \in calls[d].pending :
        /\ ~calls[d].fetched
        /\ (Resolved(c) /\ Resolved(d)) => calls[c].ret = calls[d].ret

\* C2: every call made after a load has succeeded resolves, without a
\* fetch, to the instance that first load returned.
C2_LaterCallsReturnCachedInstance ==
    \A c \in CallIds :
        (calls[c].late /\ calls[c].pc # "idle")
            => /\ Resolved(c)
               /\ ~calls[c].fetched
               /\ calls[c].ret = firstLoaded

\* C3: a load whose fetch rejected, whose response was not ok or whose body
\* did not parse is rejected to its caller; the installed table, if any, is
\* the one a successful load of a parsed body returned, so that with no
\* successful load there is none; and a call made while no table is
\* installed fetches afresh.
C3_FailedLoadLeavesTableUnloaded ==
    /\ \A c \in CallIds : calls[c].seen \in Failures => Rejected(c) /\ calls[c].ret = 0
    /\ Truthy(termsData) =>
           /\ Resolved(termsData.id)
           /\ calls[termsData.id].seen = "parsed"
    /\ (\A c \in CallIds : ~Resolved(c)) => termsData = Null
    /\ \A c \in CallIds :
           (calls[c].pc # "idle" /\ ~calls[c].late) => calls[c].fetched

\* C3 witness: a load failed, and a later call fetched afresh and installed
\* its table.
C3_Witness ==
    \E c, d \in CallIds :
        /\ c < d
        /\ Rejected(c) /\ calls[c].seen \in Failures
        /\ Resolved(d) /\ calls[d].fetched /\ ~calls[d].late
        /\ termsData = TableInstance(d)

\* C4: as long as no load has succeeded, whatever lookup was made threw the
\* 'Terms data not loaded' error.
C4_LookupsBeforeLoadThrow ==
    ((\A c \in CallIds : ~Resolved(c)) /\ lookup # NoLookup)
        => lookup.out = Throw(NotLoadedMsg)

\* C4 witness: getFullTermDates threw the error after a failed load.
C4_Witness ==
    /\ \A c \in CallIds : ~Resolved(c)
    /\ \E c \in CallIds : Rejected(c)
    /\ lookup.op = "getFullTermDates"
    /\ lookup.out = Throw(NotLoadedMsg)

-----------------------------------------------------------------------------
(* queryParser.js: string and regular-expression primitives.  A string is  *)
(* a sequence of characters, positions count from 1, and position          *)
(* Len(s) + 1 is the end of the string.                                    *)

Min(S) == CHOOSE x \in S : \A y \in S : x <= y

CharAt(s, i) == IF i \in DOMAIN s THEN s[i] ELSE ""

\* The characters of s from position i up to, not including, position j.
Slice(s, i, j) == SubSeq(s, i, j - 1)

\* String.prototype.trim.
trim(s) ==
    LET keep == {i \in DOMAIN s : ~IsSpace(s[i])}
    IN IF keep = {} THEN <<>>
       ELSE SubSeq(s, Min(keep), CHOOSE x \in keep : \A y \in keep : y <= x)

\* Whether sub occurs in s at position i.
OccursAt(s, sub, i) ==
    i >= 1 /\ i + Len(sub) - 1 <= Len(s) /\ SubSeq(s, i, i + Len(sub) - 1) = sub

\* String.prototype.includes.
includes(s, sub) == \E i \in 1..(Len(s) + 1) : OccursAt(s, sub, i)

\* String.prototype.startsWith.
startsWith(s, sub) == OccursAt(s, sub, 1)

\* The position after the run of \s characters that starts at position j.
SkipSpaces(s, j) == Min({k \in j..(Len(s) + 1) : ~IsSpace(CharAt(s, k))})

\* The position after the run of \d characters that starts at position j.
DigitRunEnd(s, j) == Min({k \in j..(Len(s) + 1) : ~IsDigit(CharAt(s, k))})

\* The assertion \b at position p, between s[p - 1] and s[p].
WordBoundary(s, p) == IsWordChar(CharAt(s, p - 1)) # IsWordChar(CharAt(s, p))

NoMatch == [found |-> FALSE]

\* /w(?:ee)?k?\s*(\d+)/i: group 1 of the leftmost match.  From a given 'w'
\* each optional part and the \s* can only match greedily: giving a part
\* back leaves a letter or a space where the next part needs a digit.
MatchWeekThenNumber(s) ==
    LET lc == toLowerCase(s)
        AfterEe(i) == IF OccursAt(lc, <<"e", "e">>, i + 1) THEN i + 3 ELSE i + 1
        AfterK(i) == IF CharAt(lc, AfterEe(i)) = "k" THEN AfterEe(i) + 1 ELSE AfterEe(i)
        NumberAt(i) == SkipSpaces(s, AfterK(i))
        starts == {i \in DOMAIN s : lc[i] = "w" /\ IsDigit(CharAt(s, NumberAt(i)))}
    IN IF starts = {} THEN NoMatch
       ELSE LET n == NumberAt(Min(starts))
            IN [found |-> TRUE, g1 |-> Slice(s, n, DigitRunEnd(s, n))]

\* /(\d+)\s*w(?:ee)?k/i: group 1 of the leftmost match.
MatchNumberThenWeek(s) ==
    LET lc == toLowerCase(s)
        WeekAt(j) ==
            /\ CharAt(lc, j) = "w"
            /\ \/ OccursAt(lc, <<"e", "e", "k">>, j + 1)
               \/ CharAt(lc, j + 1) = "k"
        starts == {i \in DOMAIN s :
                      IsDigit(s[i]) /\ WeekAt(SkipSpaces(s, DigitRunEnd(s, i)))}
    IN IF starts = {} THEN NoMatch
       ELSE [found |-> TRUE, g1 |-> Slice(s, Min(starts), DigitRunEnd(s, Min(starts)))]

\* Whether /20\d{2}/ matches at position i.
YearAt(s, i) ==
    /\ OccursAt(s, <<"2", "0">>, i)
    /\ IsDigit(CharAt(s, i + 2)) /\ IsDigit(CharAt(s, i + 3))

\* /\b(20\d{2})(?:-(\d{2}))?\b/: groups 1 and 2 of the leftmost match; g2 is
\* empty when the optional part did not take part in the match.
MatchYear(s) ==
    LET WithSuffix(i) ==
            /\ CharAt(s, i + 4) = "-"
            /\ IsDigit(CharAt(s, i + 5)) /\ IsDigit(CharAt(s, i + 6))
            /\ WordBoundary(s, i + 7)
        starts == {i \in DOMAIN s :
                      /\ WordBoundary(s, i) /\ YearAt(s, i)
                      /\ (WithSuffix(i) \/ WordBoundary(s, i + 4))}
    IN IF starts = {} THEN NoMatch
       ELSE LET i == Min(starts)
            IN [found |-> TRUE, g1 |-> Slice(s, i, i + 4),
                g2 |-> IF WithSuffix(i) THEN Slice(s, i + 5, i + 7) ELSE <<>>]

\* /\b(20\d{2})\b/: group 1 of the leftmost match.
MatchBareYear(s) ==
    LET starts == {i \in DOMAIN s :
                      WordBoundary(s, i) /\ YearAt(s, i) /\ WordBoundary(s, i + 4)}
    IN IF starts = {} THEN NoMatch
       ELSE [found |-> TRUE, g1 |-> Slice(s, Min(starts), Min(starts) + 4)]

\* /\b(\d{1,2})\b/: group 1 of the leftmost match.
MatchDay(s) ==
    LET End(i) == IF IsDigit(CharAt(s, i + 1)) THEN i + 2 ELSE i + 1
        starts == {i \in DOMAIN s :
                      WordBoundary(s, i) /\ IsDigit(s[i]) /\ WordBoundary(s, End(i))}
    IN IF starts = {} THEN NoMatch
       ELSE [found |-> TRUE, g1 |-> Slice(s, Min(starts), End(Min(starts)))]

\* The fields of s split at the separator sep, when s is three runs of
\* digits joined by sep and nothing else; <<>> otherwise.
ThreeNumbers(s, sep) ==
    LET e1 == DigitRunEnd(s, 1)
        e2 == DigitRunEnd(s, e1 + 1)
        e3 == DigitRunEnd(s, e2 + 1)
    IN IF /\ CharAt(s, e1) = sep /\ CharAt(s, e2) = sep /\ e3 = Len(s) + 1
          /\ e1 > 1 /\ e2 > e1 + 1 /\ e3 > e2 + 1
       THEN <<Slice(s, 1, e1), Slice(s, e1 + 1, e2), Slice(s, e2 + 1, e3)>>
       ELSE <<>>

\* /^(\d{4})-(\d{1,2})-(\d{1,2})$/: the three groups, or <<>>.
MatchIso(s) ==
    LET f == ThreeNumbers(s, "-")
    IN IF f # <<>> /\ Len(f[1]) = 4 /\ Len(f[2]) <= 2 /\ Len(f[3]) <= 2 THEN f ELSE <<>>

\* /^(\d{1,2})\/(\d{1,2})\/(\d{4})$/: the three groups, or <<>>.
MatchUk(s) ==
    LET f == ThreeNumbers(s, "/")
    IN IF f # <<>> /\ Len(f[1]) <= 2 /\ Len(f[2]) <= 2 /\ Len(f[3]) = 4 THEN f ELSE <<>>

\* query.replace(new RegExp(`\\b${name}\\b`, 'i'), ''): s without the first
\* occurrence of name that stands between word boundaries.
RemoveWord(s, name) ==
    LET starts == {i \in DOMAIN s :
                      /\ OccursAt(toLowerCase(s), name, i)
                      /\ WordBoundary(s, i) /\ WordBoundary(s, i + Len(name))}
    IN IF starts = {} THEN s
       ELSE Slice(s, 1, Min(starts)) \o Slice(s, Min(starts) + Len(name), Len(s) + 1)

-----------------------------------------------------------------------------
(* queryParser.js: the three sub-parsers and parseQuery.  A parsed query   *)
(* is a record with the fields of the object the code returns; an invalid  *)
(* result has an error field only when the code gives it one.              *)

WeekRangeMsg == "Week number must be between 0 and 12"

EmptyMsg == "Empty or invalid query"

CouldNotParseMsg == "Could not parse query"

Invalid == [type |-> "invalid"]

InvalidWith(msg) == [type |-> "invalid", error |-> msg]

HasError(r) == "error" \in DOMAIN r

\* error.includes('Week number'): of the messages of the module only
\* WeekRangeMsg contains it.
MentionsWeekNumber(msg) == msg = WeekRangeMsg

\* The first value, in insertion order, whose key satisfies the test that
\* picked `hits`; 0 stands for null (no key matched).
FirstEntry(dict, hits) ==
    IF hits = {} THEN 0 ELSE Min(hits)

\* termNames of parseTermWeekQuery, in insertion order.
termNames ==
    <<[key |-> <<"m", "i", "c", "h", "a", "e", "l", "m", "a", "s">>, value |-> "michaelmas"],
      [key |-> <<"m", "i", "c", "h">>, value |-> "michaelmas"],
      [key |-> <<"m", "t">>, value |-> "michaelmas"],
      [key |-> <<"h", "i", "l", "a", "r", "y">>, value |-> "hilary"],
      [key |-> <<"h", "i", "l">>, value |-> "hilary"],
      [key |-> <<"h", "t">>, value |-> "hilary"],
      [key |-> <<"t", "r", "i", "n", "i", "t", "y">>, value |-> "trinity"],
      [key |-> <<"t", "r", "i", "n">>, value |-> "trinity"],
      [key |-> <<"t", "t">>, value |-> "trinity"]>>

\* monthNames of parseDateQuery, in insertion order.
monthNames ==
    <<[key |-> <<"j", "a", "n", "u", "a", "r", "y">>, value |-> 1], [key |-> <<"j", "a", "n">>, value |-> 1],
      [key |-> <<"f", "e", "b", "r", "u", "a", "r", "y">>, value |-> 2], [key |-> <<"f", "e", "b">>, value |-> 2],
      [key |-> <<"m", "a", "r", "c", "h">>, value |-> 3], [key |-> <<"m", "a", "r">>, value |-> 3],
      [key |-> <<"a", "p", "r", "i", "l">>, value |-> 4], [key |-> <<"a", "p", "r">>, value |-> 4],
      [key |-> <<"m", "a", "y">>, value |-> 5],
      [key |-> <<"j", "u", "n", "e">>, value |-> 6], [key |-> <<"j", "u", "n">>, value |-> 6],
      [key |-> <<"j", "u", "l", "y">>, value |-> 7], [key |-> <<"j", "u", "l">>, value |-> 7],
      [key |-> <<"a", "u", "g", "u", "s", "t">>, value |-> 8], [key |-> <<"a", "u", "g">>, value |-> 8],
      [key |-> <<"s", "e", "p", "t", "e", "m", "b", "e", "r">>, value |-> 9], [key |-> <<"s", "e", "p">>, value |-> 9],
      [key |-> <<"s", "e", "p", "t">>, value |-> 9],
      [key |-> <<"o", "c", "t", "o", "b", "e", "r">>, value |-> 10], [key |-> <<"o", "c", "t">>, value |-> 10],
      [key |-> <<"n", "o", "v", "e", "m", "b", "e", "r">>, value |-> 11], [key |-> <<"n", "o", "v">>, value |-> 11],
      [key |-> <<"d", "e", "c", "e", "m", "b", "e", "r">>, value |-> 12], [key |-> <<"d", "e", "c">>, value |-> 12]>>

\* dayNames of parseDayWeekQuery, in insertion order.
dayNames ==
    <<[key |-> <<"m", "o", "n", "d", "a", "y">>, value |-> 1], [key |-> <<"m", "o", "n">>, value |-> 1],
      [key |-> <<"t", "u", "e", "s", "d", "a", "y">>, value |-> 2], [key |-> <<"t", "u", "e">>, value |-> 2],
      [key |-> <<"t", "u", "e", "s">>, value |-> 2],
      [key |-> <<"w", "e", "d", "n", "e", "s", "d", "a", "y">>, value |-> 3], [key |-> <<"w", "e", "d">>, value |-> 3],
      [key |-> <<"t", "h", "u", "r", "s", "d", "a", "y">>, value |-> 4], [key |-> <<"t", "h", "u">>, value |-> 4],
      [key |-> <<"t", "h", "u", "r">>, value |-> 4], [key |-> <<"t", "h", "u", "r", "s">>, value |-> 4],
      [key |-> <<"f", "r", "i", "d", "a", "y">>, value |-> 5], [key |-> <<"f", "r", "i">>, value |-> 5],
      [key |-> <<"s", "a", "t", "u", "r", "d", "a", "y">>, value |-> 6], [key |-> <<"s", "a", "t">>, value |-> 6],
      [key |-> <<"s", "u", "n", "d", "a", "y">>, value |-> 0], [key |-> <<"s", "u", "n">>, value |-> 0]>>

\* The academic year of a bare year, by the term.
AcademicYear(startYear, termName) ==
    IF termName = "michaelmas"
    THEN NumChars(startYear) \o <<"-">> \o sliceLast2(NumChars(startYear + 1))
    ELSE NumChars(startYear - 1) \o <<"-">> \o sliceLast2(NumChars(startYear))

\* The week-number test with its upper limit one too high.
WeekNumberRejected_LimitThirteen(weekNumber) == weekNumber < 0 \/ weekNumber > 13

\* The week-number test of parseTermWeekQuery.
WeekNumberRejected(weekNumber) == weekNumber < 0 \/ weekNumber > 12

\* weekMatch: the first pattern, or else the second.
MatchWeek(q) ==
    LET Or(first) == IF first.found THEN first ELSE MatchNumberThenWeek(q)
    IN Or(MatchWeekThenNumber(q))

parseTermWeekQuery(q) ==
    LET Year(yearMatch, termName) ==
            IF yearMatch.g2 # <<>> THEN yearMatch.g1 \o <<"-">> \o yearMatch.g2
            ELSE AcademicYear(parseIntDigits(yearMatch.g1), termName)
        Checked(weekNumber, termName, yearMatch) ==
            IF WeekNumberRejected(weekNumber) THEN InvalidWith(WeekRangeMsg)
            ELSE [type |-> "term-week",
                  term |-> termName,
                  week |-> weekNumber,
                  year |-> Year(yearMatch, termName)]
        Matched(weekMatch, termAt, yearMatch) ==
            IF weekMatch.found /\ termAt # 0 /\ yearMatch.found
            THEN Checked(parseIntDigits(weekMatch.g1), termNames[termAt].value, yearMatch)
            ELSE Invalid
    IN Matched(MatchWeek(q),
               FirstEntry(termNames, {i \in DOMAIN termNames : includes(q, termNames[i].key)}),
               MatchYear(q))

\* `${y}-${m}-${d}` of the ISO and UK branches of parseDateQuery.
DateOfGroups(year, month, day) ==
    NumChars(parseIntDigits(year)) \o <<"-">>
        \o padStart2(NumChars(parseIntDigits(month))) \o <<"-">>
        \o padStart2(NumChars(parseIntDigits(day)))

\* The day test of the day-month-year branch of parseDateQuery.
DayAccepted(day) == day >= 1 /\ day <= 31

parseDateQuery(q) ==
    LET Uk(ukMatch) ==
            IF ukMatch # <<>>
            THEN [type |-> "date", date |-> DateOfGroups(ukMatch[3], ukMatch[2], ukMatch[1])]
            ELSE Invalid
        Natural(dayMatch, monthAt, yearMatch) ==
            IF /\ dayMatch.found /\ monthAt # 0 /\ yearMatch.found
               /\ DayAccepted(parseIntDigits(dayMatch.g1))
            THEN [type |-> "date",
                  date |-> NumChars(parseIntDigits(yearMatch.g1)) \o <<"-">>
                             \o padStart2(NumChars(monthNames[monthAt].value)) \o <<"-">>
                             \o padStart2(NumChars(parseIntDigits(dayMatch.g1)))]
            ELSE Uk(MatchUk(q))
        Iso(isoMatch) ==
            IF isoMatch # <<>>
            THEN [type |-> "date", date |-> DateOfGroups(isoMatch[1], isoMatch[2], isoMatch[3])]
            ELSE Natural(MatchDay(q),
                         FirstEntry(monthNames,
                                    {i \in DOMAIN monthNames : includes(q, monthNames[i].key)}),
                         MatchBareYear(q))
    IN Iso(MatchIso(q))

\* The test that finds the day name in parseDayWeekQuery.
DayNameFound(q, name) ==
    startsWith(q, name) \/ includes(q, <<" ">> \o name \o <<" ">>)

parseDayWeekQuery(q) ==
    LET Wrapped(dayOfWeek, termWeekResult) ==
            IF termWeekResult.type = "term-week"
            THEN [type |-> "day-term-week",
                  dayOfWeek |-> dayOfWeek,
                  term |-> termWeekResult.term,
                  week |-> termWeekResult.week,
                  year |-> termWeekResult.year]
            ELSE IF HasError(termWeekResult) THEN termWeekResult
            ELSE Invalid
        WithDay(dayAt) ==
            IF dayAt = 0 THEN Invalid
            ELSE Wrapped(dayNames[dayAt].value,
                         parseTermWeekQuery(trim(RemoveWord(q, dayNames[dayAt].key))))
    IN WithDay(FirstEntry(dayNames,
                          {i \in DOMAIN dayNames : DayNameFound(q, dayNames[i].key)}))

\* query.trim().toLowerCase().
Normalized(s) == toLowerCase(trim(s))

\* parseQuery with `!query` as its only guard: trim is not a function of a
\* value that is not a string.
parseQuery_TruthyGuardOnly(q) ==
    IF ~Truthy(q) THEN InvalidWith(EmptyMsg)
    ELSE IF q.t # "string" THEN Throw("TypeError: query.trim is not a function")
    ELSE InvalidWith(CouldNotParseMsg)

\* parseQuery returning what parseDateQuery returned, its invalid value too.
parseQuery_DateResultAsIs(q) ==
    LET Date(dateResult) ==
            dateResult
        TermWeek(termWeekResult, normalizedQuery) ==
            IF termWeekResult.type # "invalid" \/ HasError(termWeekResult)
            THEN termWeekResult
            ELSE Date(parseDateQuery(normalizedQuery))
        DayWeek(dayWeekResult, normalizedQuery) ==
            IF /\ dayWeekResult.type # "invalid"
               /\ \/ HasError(dayWeekResult) /\ MentionsWeekNumber(dayWeekResult.error)
                  \/ dayWeekResult.type = "day-term-week"
            THEN dayWeekResult
            ELSE TermWeek(parseTermWeekQuery(normalizedQuery), normalizedQuery)
        Cascade(normalizedQuery) ==
            DayWeek(parseDayWeekQuery(normalizedQuery), normalizedQuery)
    IN IF ~Truthy(q) \/ q.t # "string" THEN InvalidWith(EmptyMsg)
       ELSE Cascade(Normalized(q.s))

parseQuery(q) ==
    LET Date(dateResult) ==
            IF dateResult.type # "invalid" THEN dateResult
            ELSE InvalidWith(CouldNotParseMsg)
        TermWeek(termWeekResult, normalizedQuery) ==
            IF termWeekResult.type # "invalid" \/ HasError(termWeekResult)
            THEN termWeekResult
            ELSE Date(parseDateQuery(normalizedQuery))
        DayWeek(dayWeekResult, normalizedQuery) ==
            IF /\ dayWeekResult.type # "invalid"
               /\ \/ HasError(dayWeekResult) /\ MentionsWeekNumber(dayWeekResult.error)
                  \/ dayWeekResult.type = "day-term-week"
            THEN dayWeekResult
            ELSE TermWeek(parseTermWeekQuery(normalizedQuery), normalizedQuery)
        Cascade(normalizedQuery) ==
            DayWeek(parseDayWeekQuery(normalizedQuery), normalizedQuery)
    IN IF ~Truthy(q) \/ q.t # "string" THEN InvalidWith(EmptyMsg)
       ELSE Cascade(Normalized(q.s))

-----------------------------------------------------------------------------
(* The queries handed to parseQuery.  A query is written from tokens: a    *)
(* week token, a term token and a year token in some order, with or        *)
(* without a day-of-week token at some position; or a date in one of the   *)
(* three formats; or a value that is not a query at all.  The style says   *)
(* how the tokens are spaced and cased.                                    *)

\* The longest run of whitespace written between two tokens.
MaxGap == 2

WeekToken(text, n) == [text |-> text, n |-> n]

\* "week 5", "w5", "wk 5" and "5 week" forms, in and out of the range 0..12.
WeekTokens ==
    {WeekToken(<<"w", "e", "e", "k", " ", "5">>, 5), WeekToken(<<"w", "0">>, 0), WeekToken(<<"w", "k", " ", "1", "2">>, 12),
     WeekToken(<<"5", " ", "w", "e", "e", "k">>, 5), WeekToken(<<"w", "e", "e", "k", " ", "1", "3">>, 13), WeekToken(<<"1", "3", " ", "w", "k">>, 13)}

\* Every key of termNames.
TermTokens == {[text |-> termNames[i].key, name |-> termNames[i].value] : i \in DOMAIN termNames}

\* start is the year written first; suffix is <<>> for a bare year.
YearToken(start, suffix) ==
    [text |-> IF suffix = <<>> THEN NatChars(start) ELSE NatChars(start) \o <<"-">> \o suffix,
     start |-> start, suffix |-> suffix]

YearTokens ==
    {YearToken(2025, <<>>), YearToken(2099, <<>>), YearToken(2000, <<>>),
     YearToken(1999, <<>>), YearToken(2024, <<"2", "5">>), YearToken(2024, <<"3", "0">>)}

\* Keys of dayNames, with the number dayNames gives them.
DayToken(text, n) == [text |-> text, n |-> n]

NoDay == DayToken(<<>>, -1)

DayTokens ==
    {DayToken(<<"t", "u", "e", "s", "d", "a", "y">>, 2), DayToken(<<"t", "u", "e", "s">>, 2), DayToken(<<"w", "e", "d">>, 3),
     DayToken(<<"s", "u", "n", "d", "a", "y">>, 0)}

\* The orders of the week, term and year tokens.
Orders ==
    {<<"week", "term", "year">>, <<"week", "year", "term">>, <<"term", "week", "year">>,
     <<"term", "year", "week">>, <<"year", "week", "term">>, <<"year", "term", "week">>}

TermWeekForm(w, t, y, o, d, p) ==
    [kind |-> "term-week", week |-> w, term |-> t, year |-> y, order |-> o,
     day |-> d, dayPos |-> p]

\* Term-week queries without a day token: every week, term, year and order.
TermWeekForms ==
    {TermWeekForm(w, t, y, o, NoDay, 0) :
        w \in WeekTokens, t \in TermTokens, y \in YearTokens, o \in Orders}

\* Queries with a day token before, between or after the other tokens, and
\* the same queries without it.
DayTermWeekForms ==
    {TermWeekForm(w, t, y, o, d.day, d.pos) :
        w \in {w \in WeekTokens : w.n \in {5, 13}},
        t \in {t \in TermTokens : t.text \in {<<"m", "t">>, <<"t", "r", "i", "n", "i", "t", "y">>}},
        y \in {y \in YearTokens : y.start = 2025},
        o \in {o \in Orders : o[2] # "week"},
        d \in [day : DayTokens, pos : 0..3] \cup {[day |-> NoDay, pos |-> 0]}}

DateForm(format, day, month, year) ==
    [kind |-> "date", format |-> format, day |-> day, month |-> month, year |-> year]

DateFormats == {"iso", "day-month-year", "month-day-year", "uk"}

DateDays == {0, 1, 25, 31, 32, 45}

\* Month names of monthNames with their numbers.
DateMonths ==
    {[text |-> <<"m", "a", "r", "c", "h">>, n |-> 3], [text |-> <<"s", "e", "p", "t">>, n |-> 9], [text |-> <<"f", "e", "b">>, n |-> 2]}

DateForms ==
    {DateForm(f, d, m, 2027) : f \in DateFormats, d \in DateDays, m \in DateMonths}

\* Values that are not a query, and queries without any token.
RawForms ==
    {[kind |-> "raw", value |-> v] :
        v \in {Null, Undefined, JsNumber(5), JsString(<<>>), JsString(<<" ", "\t">>),
               JsString(<<"h", "e", "l", "l", "o">>)}}

\* Queries with some, but not all, of a week, a term and a year token, with
\* or without a day token in front: they belong to none of the grammars.
PartialForms ==
    LET Kept == {<<"week">>, <<"term">>, <<"year">>, <<"week", "term">>,
                 <<"term", "week">>, <<"week", "year">>, <<"year", "week">>,
                 <<"term", "year">>, <<"year", "term">>}
        Texts(w, t, y, k, d) ==
            (IF d = NoDay THEN <<>> ELSE <<d.text>>)
                \o [i \in DOMAIN k |->
                       CASE k[i] = "week" -> w.text
                         [] k[i] = "term" -> t.text
                         [] k[i] = "year" -> y.text]
    IN {[kind |-> "partial", parts |-> Texts(w, t, y, k, d)] :
           w \in WeekTokens, t \in TermTokens, y \in YearTokens, k \in Kept,
           d \in DayTokens \cup {NoDay}}

RECURSIVE Repeat(_, _)
Repeat(c, n) == IF n = 0 THEN <<>> ELSE <<c>> \o Repeat(c, n - 1)

\* Runs of spaces and runs of tabs.
Gaps == {Repeat(c, n) : c \in {" ", "\t"}, n \in 1..MaxGap}

\* gap: the whitespace between tokens; upper: written in capitals, with the
\* gap also before and after the query.
Styles == [gap : Gaps, upper : BOOLEAN]

PlainStyle == [gap |-> <<" ">>, upper |-> FALSE]

RECURSIVE Join(_, _)
Join(parts, gap) ==
    IF Len(parts) = 0 THEN <<>>
    ELSE IF Len(parts) = 1 THEN parts[1]
    ELSE parts[1] \o gap \o Join(Tail(parts), gap)

\* The tokens of a term-week form, in the order they are written.
TermWeekParts(f) ==
    LET base == [i \in 1..3 |-> f[f.order[i]].text]
    IN IF f.day = NoDay THEN base
       ELSE SubSeq(base, 1, f.dayPos) \o <<f.day.text>> \o SubSeq(base, f.dayPos + 1, 3)

\* The tokens of a date form.
DateParts(f) ==
    CASE f.format = "iso" ->
            <<NatChars(f.year) \o <<"-">> \o padStart2(NatChars(f.month.n))
                \o <<"-">> \o padStart2(NatChars(f.day))>>
      [] f.format = "uk" ->
            <<padStart2(NatChars(f.day)) \o <<"/">> \o padStart2(NatChars(f.month.n))
                \o <<"/">> \o NatChars(f.year)>>
      [] f.format = "day-month-year" ->
            <<NatChars(f.day), f.month.text, NatChars(f.year)>>
      [] f.format = "month-day-year" ->
            <<f.month.text, NatChars(f.day) \o <<",">>, NatChars(f.year)>>

Parts(f) ==
    CASE f.kind = "term-week" -> TermWeekParts(f)
      [] f.kind = "partial" -> f.parts
      [] OTHER -> DateParts(f)

\* The text of the tokens in a style.
Styled(parts, style) ==
    LET body == Join(parts, style.gap)
    IN IF style.upper THEN style.gap \o toUpperCase(body) \o style.gap ELSE body

\* The argument of parseQuery for an input.
Written(in) ==
    IF "value" \in DOMAIN in.form THEN in.form.value
    ELSE JsString(Styled(Parts(in.form), in.style))

\* Forms written in every style; the token-free values in one.
QueryInputs ==
    {[form |-> f, style |-> s] :
        f \in DayTermWeekForms \cup DateForms, s \in Styles}
    \cup {[form |-> f, style |-> PlainStyle] :
             f \in TermWeekForms \cup RawForms \cup PartialForms}

\* parseQuery reads neither the table nor the clock.
InitParser ==
    /\ InitLoad
    /\ tzOffset = 60
    /\ input \in QueryInputs
    /\ query = NoQuery
    /\ parsed = NotParsed
    /\ result = NoResult
    /\ summary = NoSummary
    /\ InitUi

\* The application hands the text of the search box to parseQuery.
ParseQuery ==
    /\ parsed = NotParsed
    /\ query' = Written(input)
    /\ parsed' = parseQuery(query')
    /\ UNCHANGED <<input, result, summary, loadVars, uiVars>>

NextParser == ParseQuery

SpecParser == InitParser /\ [][NextParser]_vars

-----------------------------------------------------------------------------
(* Properties of parseQuery.                                               *)

\* parseQuery has returned for the input.
Done == parsed # NotParsed

\* The input is a term-week query, with or without a day token.
IsTermWeekInput == input.form.kind = "term-week"

HasDayToken == IsTermWeekInput /\ input.form.day # NoDay

IsDateInput == input.form.kind = "date"

\* n mod 100 written with two digits.
TwoDigits(n) == <<Digits[((n % 100) \div 10) + 1], Digits[(n % 10) + 1]>>

\* The academic year that a bare year y names for a term.
ExpectedYear(termName, y) ==
    IF termName = "michaelmas" THEN NatChars(y) \o <<"-">> \o TwoDigits(y + 1)
    ELSE NatChars(y - 1) \o <<"-">> \o TwoDigits(y)

\* s is YYYY-YY with YY the last two digits of YYYY + 1.
IsAcademicYear(s) ==
    /\ Len(s) = 7
    /\ \A i \in {1, 2, 3, 4, 6, 7} : IsDigit(s[i])
    /\ s[5] = "-"
    /\ SubSeq(s, 6, 7) = TwoDigits(parseIntDigits(SubSeq(s, 1, 4)) + 1)

\* s with every run of whitespace replaced by one space.
RECURSIVE CollapseWhitespace(_)
CollapseWhitespace(s) ==
    IF s = <<>> THEN <<>>
    ELSE IF IsSpace(Head(s))
    THEN <<" ">> \o CollapseWhitespace(SubSeq(s, SkipSpaces(s, 1), Len(s)))
    ELSE <<Head(s)>> \o CollapseWhitespace(Tail(s))

\* The query trimmed, lower-cased and with its internal whitespace collapsed.
NormalForm(s) == CollapseWhitespace(toLowerCase(trim(s)))

\* The result for the input's query written without its day token.
WithoutDayToken == parseQuery(Written([input EXCEPT !.form.day = NoDay]))

\* C5: a query with a day-of-week token at the start, in the middle or at
\* the end (here: set off by spaces), whose text without the token parses as
\* a term-week, parses as a day-term-week with the token's day number and
\* the term, week and year of that term-week.
C5_DayTokenAnywhereGivesDayTermWeek ==
    (/\ Done /\ HasDayToken /\ input.style.gap \in {<<" ">>, <<" ", " ">>}
     /\ WithoutDayToken.type = "term-week")
        => parsed = [type |-> "day-term-week",
                     dayOfWeek |-> input.form.day.n,
                     term |-> WithoutDayToken.term,
                     week |-> WithoutDayToken.week,
                     year |-> WithoutDayToken.year]

\* C6: a week token in 0..12, a term name or abbreviation and a bare year Y
\* (here: of 2000 to 2099), in any order, parse as a term-week with the
\* canonical term, that week and the academic year Y-(Y+1) for michaelmas,
\* (Y-1)-Y for hilary and trinity.
C6_BareYearGivesAcademicYearInAnyOrder ==
    (/\ Done /\ IsTermWeekInput /\ ~HasDayToken
     /\ input.form.week.n \in 0..12 /\ input.form.year.suffix = <<>>
     /\ input.form.year.start \in 2000..2099)
        => parsed = [type |-> "term-week",
                     term |-> input.form.term.name,
                     week |-> input.form.week.n,
                     year |-> ExpectedYear(input.form.term.name, input.form.year.start)]

C8_ResultYearIsAcademicYear ==
    (Done /\ parsed.type \in {"term-week", "day-term-week"}) => IsAcademicYear(parsed.year)

\* C9: in each of the three date formats a query is a date result only when
\* its day is in 1..31, and is invalid when its day is 0 or above 31.
C9_DateNeedsDayInRange ==
    (Done /\ IsDateInput)
        => /\ parsed.type = "date" => input.form.day \in 1..31
           /\ input.form.day \notin 1..31 => parsed.type = "invalid"

\* C10: the result for a query written from tokens equals the result for the
\* query trimmed, lower-cased and with every run of spaces or tabs collapsed
\* to one space.
C10_CaseAndWhitespaceInvariant ==
    (Done /\ input.form.kind # "raw") => parsed = parseQuery(JsString(NormalForm(query.s)))

\* The value is what a call returned, not what it threw.
Returned(r) == "type" \in DOMAIN r

\* The input is no string, or the empty string.
IsEmptyOrNoString ==
    input.form.kind = "raw" /\ (input.form.value.t # "string" \/ input.form.value.s = <<>>)

\* The input is a string of none of the three grammars: blank, a word, or
\* only some of a week, a term and a year.
IsOfNoGrammar ==
    \/ input.form.kind = "partial"
    \/ input.form.kind = "raw" /\ input.form.value.t = "string" /\ input.form.value.s # <<>>

\* C11: parseQuery returns for every input; for null, undefined, a value that
\* is no string and the empty string the result is invalid with the error
\* 'Empty or invalid query' (which contains 'Empty' and 'invalid'); for a
\* string of none of the three grammars, one with only some of week, term and
\* year included, it is invalid with exactly 'Could not parse query'.
C11_NoGrammarGivesCouldNotParse ==
    Done => /\ Returned(parsed)
            /\ IsEmptyOrNoString => parsed = [type |-> "invalid", error |-> "Empty or invalid query"]
            /\ IsOfNoGrammar => parsed = [type |-> "invalid", error |-> "Could not parse query"]

\* Two of a week, a term and a year token behind a day token have been
\* parsed.
C11_Witness ==
    /\ Done
    /\ input.form.kind = "partial" /\ Len(input.form.parts) = 3
    /\ parsed = InvalidWith(CouldNotParseMsg)

-----------------------------------------------------------------------------
(* dateUtils.js.  The time zone of the process is a fixed offset from UTC, *)
(* so a local day is 1440 minutes long.                                    *)

\* new Date(year, monthIndex, day): local midnight; a year 0..99 means
\* 1900 + year, and a month index or a day out of range rolls over.
MakeDate(year, monthIndex, day) ==
    LET Rolled(y, m) == DaysFromCivil(y, m, 1) + day - 1
        fullYear == IF year \in 0..99 THEN 1900 + year ELSE year
    IN JsDate(Rolled(fullYear + (monthIndex \div 12), (monthIndex % 12) + 1) * MinutesPerDay
                - tzOffset)

\* dateStr.split('-').map(Number), then new Date(year, month - 1, day): a
\* missing or non-numeric part is NaN and makes the Invalid Date.
parseISODate(dateStr) ==
    LET dashes == {i \in DOMAIN dateStr : dateStr[i] = "-"}
        Cut(p1, p2, p3) ==
            <<SubSeq(dateStr, 1, p1 - 1), SubSeq(dateStr, p1 + 1, p2 - 1),
              SubSeq(dateStr, p2 + 1, p3 - 1)>>
        Split(p1, rest) ==
            Cut(p1, Min(rest), IF rest \ {Min(rest)} = {} THEN Len(dateStr) + 1
                               ELSE Min(rest \ {Min(rest)}))
        OfParts(parts) ==
            IF \A i \in 1..3 : AllDigits(parts[i])
            THEN MakeDate(parseIntDigits(parts[1]), parseIntDigits(parts[2]) - 1,
                          parseIntDigits(parts[3]))
            ELSE InvalidDate
    IN IF Cardinality(dashes) < 2 THEN InvalidDate
       ELSE OfParts(Split(Min(dashes), dashes \ {Min(dashes)}))

\* The local day number of a Date (days since 1970-01-01).
LocalDay(date) == (date.time + tzOffset) \div MinutesPerDay

\* Date.prototype.getDay: 1970-01-01 was a Thursday.
getDay(date) == (LocalDay(date) + 4) % 7

\* The date part of toISOString(): the UTC day instead of the local day.
toISODateString_UtcDay(date) ==
    LET Of(utc) == IsoChars(utc.y, utc.m, utc.d)
    IN Of(CivilFromDays(date.time \div MinutesPerDay))

toISODateString(date) ==
    LET Of(local) == IsoChars(local.y, local.m, local.d)
    IN Of(CivilFromDays(LocalDay(date)))

\* new Date(date) or parseISODate(date), then setDate(getDate() + days).
addDays(date, days) ==
    LET Moved(d) == IF d.valid THEN JsDate(d.time + days * MinutesPerDay) ELSE d
    IN Moved(IF date.t = "string" THEN parseISODate(date.s) ELSE date)

\* days of getDayName.
DayNamesFull ==
    <<<<"S", "u", "n", "d", "a", "y">>, <<"M", "o", "n", "d", "a", "y">>, <<"T", "u", "e", "s", "d", "a", "y">>, <<"W", "e", "d", "n", "e", "s", "d", "a", "y">>, <<"T", "h", "u", "r", "s", "d", "a", "y">>,
      <<"F", "r", "i", "d", "a", "y">>, <<"S", "a", "t", "u", "r", "d", "a", "y">>>>

\* months of getMonthName.
MonthNamesFull ==
    <<<<"J", "a", "n", "u", "a", "r", "y">>, <<"F", "e", "b", "r", "u", "a", "r", "y">>, <<"M", "a", "r", "c", "h">>, <<"A", "p", "r", "i", "l">>, <<"M", "a", "y">>, <<"J", "u", "n", "e">>,
      <<"J", "u", "l", "y">>, <<"A", "u", "g", "u", "s", "t">>, <<"S", "e", "p", "t", "e", "m", "b", "e", "r">>, <<"O", "c", "t", "o", "b", "e", "r">>, <<"N", "o", "v", "e", "m", "b", "e", "r">>, <<"D", "e", "c", "e", "m", "b", "e", "r">>>>

\* formatDate(date, 'full') for a valid Date.
formatDate(date) ==
    LET Of(local) ==
            DayNamesFull[getDay(date) + 1] \o <<",", " ">> \o NatChars(local.d)
                \o <<" ">> \o MonthNamesFull[local.m] \o <<" ">> \o NatChars(local.y)
    IN Of(CivilFromDays(LocalDay(date)))

-----------------------------------------------------------------------------
(* searchEngine.js.  A result is a record with the fields of the object    *)
(* the code returns; its texts are sequences of characters, a term is the  *)
(* string the parser gave, dates is a sequence of Dates.                   *)

\* The characters of the message literals of the modules.
MessageChars(msg) ==
    CASE msg = EmptyMsg -> <<"E", "m", "p", "t", "y", " ", "o", "r", " ", "i", "n", "v", "a", "l", "i", "d", " ", "q", "u", "e", "r", "y">>
      [] msg = WeekRangeMsg -> <<"W", "e", "e", "k", " ", "n", "u", "m", "b", "e", "r", " ", "m", "u", "s", "t", " ", "b", "e", " ", "b", "e", "t", "w", "e", "e", "n", " ", "0", " ", "a", "n", "d", " ", "1", "2">>
      [] msg = CouldNotParseMsg -> <<"C", "o", "u", "l", "d", " ", "n", "o", "t", " ", "p", "a", "r", "s", "e", " ", "q", "u", "e", "r", "y">>
      [] msg = NotLoadedMsg -> <<"T", "e", "r", "m", "s", " ", "d", "a", "t", "a", " ", "n", "o", "t", " ", "l", "o", "a", "d", "e", "d", ".", " ", "C", "a", "l", "l", " ", "l", "o", "a", "d", "T", "e", "r", "m", "s", "D", "a", "t", "a", "(", ")", " ", "f", "i", "r", "s", "t", ".">>
      [] OTHER -> <<"I", "n", "v", "a", "l", "i", "d", " ", "t", "i", "m", "e", " ", "v", "a", "l", "u", "e">>

\* The characters of a term name of a parsed query.
TermChars(term) == CHOOSE t \in Range(TermOrder) : Str(t) = term

capitalizeFirst(str) ==
    IF str = <<>> THEN <<>> ELSE <<UpperChar(str[1])>> \o Tail(str)

Failure(error, q) == [success |-> FALSE, error |-> error, query |-> q]

\* The message with the term as the parser wrote it.
NotFoundMsg_TermAsParsed(p) ==
    <<"W", "e", "e", "k", " ">> \o NatChars(p.week) \o <<" ", "o", "f", " ">> \o TermChars(p.term)
        \o <<" ">> \o p.year \o <<" ", "n", "o", "t", " ", "f", "o", "u", "n", "d">>

\* `Week ${week} of ${capitalizeFirst(term)} ${year} not found`
NotFoundMsg(p) ==
    <<"W", "e", "e", "k", " ">> \o NatChars(p.week) \o <<" ", "o", "f", " ">> \o capitalizeFirst(TermChars(p.term))
        \o <<" ">> \o p.year \o <<" ", "n", "o", "t", " ", "f", "o", "u", "n", "d">>

OutsideWeekMsg == <<"D", "a", "t", "e", " ", "f", "a", "l", "l", "s", " ", "o", "u", "t", "s", "i", "d", "e", " ", "t", "h", "e", " ", "s", "p", "e", "c", "i", "f", "i", "e", "d", " ", "w", "e", "e", "k">>

OutsideTermText == <<"O", "u", "t", "s", "i", "d", "e", " ", "t", "e", "r", "m", " ", "t", "i", "m", "e">>

\* `${capitalizeFirst(term)} Term ${year}, Week ${week}`
TermWeekText(term, year, week) ==
    capitalizeFirst(term) \o <<" ", "T", "e", "r", "m", " ">> \o year \o <<",", " ", "W", "e", "e", "k", " ">> \o NatChars(week)

\* The loop with the test currentDate < endDate.
DatesOfRange_ExclusiveEnd(startDate, endDate) ==
    IF ~startDate.valid \/ ~endDate.valid \/ startDate.time >= endDate.time THEN <<>>
    ELSE [i \in 1..((endDate.time - startDate.time - 1) \div MinutesPerDay + 1) |->
             JsDate(startDate.time + (i - 1) * MinutesPerDay)]

\* The Dates pushed by the loop from startDate while currentDate <= endDate.
DatesOfRange(startDate, endDate) ==
    IF ~startDate.valid \/ ~endDate.valid \/ startDate.time > endDate.time THEN <<>>
    ELSE [i \in 1..((endDate.time - startDate.time) \div MinutesPerDay + 1) |->
             JsDate(startDate.time + (i - 1) * MinutesPerDay)]

\* searchTermWeek without its try and catch: what getWeekData throws is
\* thrown on.
searchTermWeek_NoCatch(p) ==
    LET Found(weekData, startDate, endDate) ==
            [success |-> TRUE, type |-> "week-range", term |-> p.term, week |-> p.week,
             year |-> p.year,
             startDate |-> GetProp(weekData, "start").s,
             endDate |-> GetProp(weekData, "end").s,
             dates |-> DatesOfRange(startDate, endDate),
             displayText |-> TermWeekText(TermChars(p.term), p.year, p.week),
             detailText |-> formatDate(startDate) \o <<" ", "-", " ">> \o formatDate(endDate)]
        OfWeek(weekData) ==
            IF Threw(weekData) THEN weekData
            ELSE IF ~Truthy(weekData) THEN Failure(NotFoundMsg(p), p)
            ELSE Found(weekData, parseISODate(GetProp(weekData, "start").s),
                       parseISODate(GetProp(weekData, "end").s))
    IN OfWeek(getWeekData(JsString(p.year), JsString(TermChars(p.term)), p.week))

searchTermWeek(p) ==
    LET Found(weekData, startDate, endDate) ==
            [success |-> TRUE, type |-> "week-range", term |-> p.term, week |-> p.week,
             year |-> p.year,
             startDate |-> GetProp(weekData, "start").s,
             endDate |-> GetProp(weekData, "end").s,
             dates |-> DatesOfRange(startDate, endDate),
             displayText |-> TermWeekText(TermChars(p.term), p.year, p.week),
             detailText |-> formatDate(startDate) \o <<" ", "-", " ">> \o formatDate(endDate)]
        OfWeek(weekData) ==
            IF Threw(weekData) THEN Failure(MessageChars(weekData.msg), p)
            ELSE IF ~Truthy(weekData) THEN Failure(NotFoundMsg(p), p)
            ELSE Found(weekData, parseISODate(GetProp(weekData, "start").s),
                       parseISODate(GetProp(weekData, "end").s))
    IN OfWeek(getWeekData(JsString(p.year), JsString(TermChars(p.term)), p.week))

searchDate(p) ==
    LET Common(date) ==
            [success |-> TRUE, type |-> "single-date", date |-> p.date, dates |-> <<date>>,
             displayText |-> formatDate(date)]
        InTerm(date, termWeek) ==
            [success |-> TRUE, type |-> "single-date", date |-> p.date, dates |-> <<date>>,
             term |-> Str(GetProp(termWeek, "term").s),
             week |-> GetProp(termWeek, "week").n,
             year |-> GetProp(termWeek, "year").s,
             displayText |-> formatDate(date),
             detailText |-> TermWeekText(GetProp(termWeek, "term").s,
                                         GetProp(termWeek, "year").s,
                                         GetProp(termWeek, "week").n)]
        OfTermWeek(date, termWeek) ==
            IF Threw(termWeek) THEN Failure(MessageChars(termWeek.msg), p)
            ELSE IF Truthy(termWeek) THEN InTerm(date, termWeek)
            ELSE [detailText |-> OutsideTermText] @@ Common(date)
        OfDate(date) == OfTermWeek(date, findTermWeekForDate(date))
    IN OfDate(parseISODate(p.date))

\* searchDayTermWeek without the comparison of targetDate with weekEnd.
searchDayTermWeek_NoEndTest(p) ==
    LET Found(targetDate) ==
            [success |-> TRUE, type |-> "single-date",
             date |-> toISODateString(targetDate), dates |-> <<targetDate>>,
             term |-> p.term, week |-> p.week, year |-> p.year,
             dayOfWeek |-> p.dayOfWeek,
             displayText |-> formatDate(targetDate),
             detailText |-> DayNamesFull[p.dayOfWeek + 1] \o <<",", " ", "W", "e", "e", "k", " ">> \o NatChars(p.week)
                                \o <<" ", "o", "f", " ">> \o capitalizeFirst(TermChars(p.term))
                                \o <<" ", "T", "e", "r", "m", " ">> \o p.year]
        OfTarget(targetDate, weekEnd) == Found(targetDate)
        OfWeek(weekData) ==
            IF Threw(weekData) THEN Failure(MessageChars(weekData.msg), p)
            ELSE IF ~Truthy(weekData) THEN Failure(NotFoundMsg(p), p)
            ELSE OfTarget(addDays(parseISODate(GetProp(weekData, "start").s), p.dayOfWeek),
                          parseISODate(GetProp(weekData, "end").s))
    IN OfWeek(getWeekData(JsString(p.year), JsString(TermChars(p.term)), p.week))

searchDayTermWeek(p) ==
    LET Found(targetDate) ==
            [success |-> TRUE, type |-> "single-date",
             date |-> toISODateString(targetDate), dates |-> <<targetDate>>,
             term |-> p.term, week |-> p.week, year |-> p.year,
             dayOfWeek |-> p.dayOfWeek,
             displayText |-> formatDate(targetDate),
             detailText |-> DayNamesFull[p.dayOfWeek + 1] \o <<",", " ", "W", "e", "e", "k", " ">> \o NatChars(p.week)
                                \o <<" ", "o", "f", " ">> \o capitalizeFirst(TermChars(p.term))
                                \o <<" ", "T", "e", "r", "m", " ">> \o p.year]
        OfTarget(targetDate, weekEnd) ==
            IF targetDate.valid /\ weekEnd.valid /\ targetDate.time > weekEnd.time
            THEN Failure(OutsideWeekMsg, p)
            ELSE Found(targetDate)
        OfWeek(weekData) ==
            IF Threw(weekData) THEN Failure(MessageChars(weekData.msg), p)
            ELSE IF ~Truthy(weekData) THEN Failure(NotFoundMsg(p), p)
            ELSE OfTarget(addDays(parseISODate(GetProp(weekData, "start").s), p.dayOfWeek),
                          parseISODate(GetProp(weekData, "end").s))
    IN OfWeek(getWeekData(JsString(p.year), JsString(TermChars(p.term)), p.week))

getResultSummary(results) ==
    IF ~results.success THEN <<"E", "r", "r", "o", "r", ":", " ">> \o results.error
    ELSE CASE results.type = "week-range" ->
                 <<"F", "o", "u", "n", "d", " ">> \o results.displayText \o <<"\n">>
                     \o results.detailText
           [] results.type = "single-date" ->
                 results.displayText \o <<"\n">> \o results.detailText
           [] OTHER -> <<"U", "n", "k", "n", "o", "w", "n", " ", "r", "e", "s", "u", "l", "t", " ", "t", "y", "p", "e">>

search(q) ==
    LET OfParsed(p) ==
            CASE p.type = "invalid" ->
                    Failure(IF HasError(p) THEN MessageChars(p.error) ELSE <<"I", "n", "v", "a", "l", "i", "d", " ", "q", "u", "e", "r", "y">>, q)
              [] p.type = "term-week" -> searchTermWeek(p)
              [] p.type = "date" -> searchDate(p)
              [] p.type = "day-term-week" -> searchDayTermWeek(p)
              [] OTHER -> Failure(<<"U", "n", "k", "n", "o", "w", "n", " ", "q", "u", "e", "r", "y", " ", "t", "y", "p", "e">>, q)
    IN OfParsed(parseQuery(q))

-----------------------------------------------------------------------------
(* The queries handed to search, and search as a state machine over the    *)
(* loaded table.                                                           *)

\* The academic years asked for: those of the table and one it lacks.
SearchYears == {<<"2", "0", "2", "4", "-", "2", "5">>, <<"2", "0", "2", "5", "-", "2", "6">>, <<"2", "0", "2", "6", "-", "2", "7">>, <<"2", "0", "3", "0", "-", "3", "1">>}

\* 'Week {week} {Term} {year}', behind a day name when day is 0..6.
WeekQuery(day, week, term, year) ==
    [kind |-> "search-week", day |-> day, week |-> week, term |-> Str(term), year |-> year,
     value |-> JsString((IF day = -1 THEN <<>> ELSE DayNamesFull[day + 1] \o <<" ">>)
                          \o <<"W", "e", "e", "k", " ">> \o NatChars(week) \o <<" ">> \o capitalizeFirst(term)
                          \o <<" ">> \o year)]

WeekQueries ==
    {WeekQuery(d, w, t, y) : d \in -1..6, w \in 0..12, t \in Range(TermOrder), y \in SearchYears}

\* The day number (days since 1970-01-01) of a date string of the table.
DayNumber(iso) ==
    DaysFromCivil(parseIntDigits(SubSeq(iso, 1, 4)), parseIntDigits(SubSeq(iso, 6, 7)),
                  parseIntDigits(SubSeq(iso, 9, 10)))

\* The week entries of the resource: year, term and week of each with its
\* first and last day.
TableEntries ==
    LET terms == TermsJson.props.terms
        Entry(yi, term, w, weekData) ==
            [year |-> GetProp(terms[yi], "year").s, term |-> Str(term), week |-> w,
             start |-> GetProp(weekData, "start").s, end |-> GetProp(weekData, "end").s,
             first |-> DayNumber(GetProp(weekData, "start").s),
             last |-> DayNumber(GetProp(weekData, "end").s)]
        At(x) == GetProp(GetProp(terms[x[1]], Str(x[2])), WeekKey[x[3]])
    IN {Entry(x[1], x[2], x[3], At(x)) :
           x \in {x \in (DOMAIN terms) \X Range(TermOrder) \X (0..12) : Truthy(At(x))}}

\* A date written as text; y, m, d are the numbers written.
DateQuery(text, y, m, d) ==
    [kind |-> "search-date", y |-> y, m |-> m, d |-> d, value |-> JsString(text)]

\* Every day of every week entry, and the day before and the day after,
\* written YYYY-MM-DD.
DayQueries ==
    LET Of(c) == DateQuery(IsoChars(c.y, c.m, c.d), c.y, c.m, c.d)
    IN {Of(CivilFromDays(n)) : n \in UNION {(e.first - 1)..(e.last + 1) : e \in TableEntries}}

\* Dates written in words, and days written that their month does not have.
WrittenDateQueries ==
    {DateQuery(<<"1", "3", " ", "O", "c", "t", "o", "b", "e", "r", " ", "2", "0", "2", "4">>, 2024, 10, 13),
     DateQuery(<<"M", "a", "r", "c", "h", " ", "2", "5", ",", " ", "2", "0", "2", "5">>, 2025, 3, 25),
     DateQuery(<<"3", "1", " ", "A", "p", "r", "i", "l", " ", "2", "0", "2", "5">>, 2025, 4, 31),
     DateQuery(<<"2", "0", "2", "5", "-", "0", "2", "-", "3", "0">>, 2025, 2, 30),
     DateQuery(<<"2", "0", "2", "4", "-", "0", "9", "-", "3", "6">>, 2024, 9, 36),
     DateQuery(<<"3", "1", " ", "F", "e", "b", "r", "u", "a", "r", "y", " ", "2", "0", "2", "5">>, 2025, 2, 31),
     DateQuery(<<"2", "0", "2", "5", "-", "1", "3", "-", "0", "5">>, 2025, 13, 5),
     DateQuery(<<"3", "6", "/", "0", "9", "/", "2", "0", "2", "4">>, 2024, 9, 36)}

SearchInputs ==
    {[form |-> f, style |-> PlainStyle] :
        f \in WeekQueries \cup DayQueries \cup WrittenDateQueries \cup RawForms
              \cup {WeekQuery(d, 13, TermOrder[1], <<"2", "0", "2", "4", "-", "2", "5">>) : d \in {-1, 2}}}

\* The queries made before the table is loaded.
EarlyInputs ==
    {[form |-> f, style |-> PlainStyle] :
        f \in WrittenDateQueries \cup RawForms
              \cup {WeekQuery(d, w, TermOrder[1], <<"2", "0", "2", "4", "-", "2", "5">>) :
                       d \in {-1, 0, 2}, w \in {1, 3, 13}}}

\* The state after loadTermsData() has resolved once.
Loaded ==
    /\ termsData = TableInstance(1)
    /\ calls = [c \in CallIds |->
                  IF c = 1 THEN [pc |-> "resolved", seen |-> "parsed", ret |-> 1,
                                 fetched |-> TRUE, pending |-> {}, late |-> FALSE]
                  ELSE IdleCall]
    /\ fetches = 1
    /\ firstLoaded = 1
    /\ lookup = NoLookup
    /\ tzOffset \in TimeZones

\* A search is made over the loaded table, or before any load.
InitSearch ==
    /\ \/ Loaded /\ input \in SearchInputs
       \/ InitLoad /\ input \in EarlyInputs
    /\ query = NoQuery
    /\ parsed = NotParsed
    /\ result = NoResult
    /\ summary = NoSummary
    /\ InitUi

Search ==
    /\ result = NoResult
    /\ query' = Written(input)
    /\ parsed' = parseQuery(query')
    /\ result' = search(query')
    /\ UNCHANGED <<input, summary, loadVars, uiVars>>

\* The caller asks for the summary of the result it got.
Summarize ==
    /\ result # NoResult
    /\ summary = NoSummary
    /\ summary' = getResultSummary(result)
    /\ UNCHANGED <<input, query, parsed, result, loadVars, uiVars>>

NextSearch == Search \/ Summarize

SpecSearch == InitSearch /\ [][NextSearch]_vars

\* search has returned for the input, over the loaded table.
Searched == result # NoResult /\ Truthy(termsData)

-----------------------------------------------------------------------------
(* Properties of search.                                                   *)

IsWeekSearch == input.form.kind = "search-week"

IsDateSearch == input.form.kind = "search-date"

\* The entries of the table for the year, term and week the query names:
\* one at most.
EntriesAsked ==
    {e \in TableEntries :
        e.year = input.form.year /\ e.term = input.form.term /\ e.week = input.form.week}

\* The Date is the local midnight of the day numbered n.
IsLocalMidnightOf(date, n) == date.valid /\ date.time + tzOffset = n * MinutesPerDay

\* C12: for every year, term and week with an entry in the loaded table,
\* search('Week {week} {Term} {year}') succeeds with a week-range whose
\* startDate and endDate are those of the entry, whose term, week and year are
\* those asked for, and whose dates are the consecutive days from the start to
\* the end inclusive, as many as the day difference plus one.
C12_WeekSearchReturnsEntryAndItsDays ==
    (Searched /\ IsWeekSearch /\ input.form.day = -1)
        => \A e \in EntriesAsked :
              /\ result.success /\ result.type = "week-range"
              /\ result.startDate = e.start /\ result.endDate = e.end
              /\ result.term = e.term /\ result.week = e.week /\ result.year = e.year
              /\ Len(result.dates) = e.last - e.first + 1
              /\ \A i \in DOMAIN result.dates :
                    IsLocalMidnightOf(result.dates[i], e.first + i - 1)

\* A week of seven days and the week of four days have been found.
C12_Witness ==
    /\ Searched /\ IsWeekSearch /\ input.form.day = -1
    /\ \E e \in EntriesAsked : e.last - e.first = 3
    /\ result.success /\ Len(result.dates) = 4

\* 'Week {w} of {Term} {year} not found' for the year, term and week the
\* query names.
ExpectedNotFound ==
    <<"W", "e", "e", "k", " ">> \o NatChars(input.form.week) \o <<" ", "o", "f", " ">>
        \o capitalizeFirst(TermChars(input.form.term)) \o <<" ">> \o input.form.year
        \o <<" ", "n", "o", "t", " ", "f", "o", "u", "n", "d">>

\* C13: a term-week or day-term-week query whose year, term and week have no
\* entry in the loaded table (unknown year, term missing from the year, week
\* missing from the term) makes search return a failure, not a success, with
\* the error 'Week {w} of {Term} {year} not found', the term capitalised and
\* the year the academic year.
C13_MissingEntryGivesNotFound ==
    (Searched /\ IsWeekSearch /\ parsed.type \in {"term-week", "day-term-week"}
              /\ EntriesAsked = {})
        => /\ DOMAIN result = {"success", "error", "query"}
           /\ ~result.success
           /\ result.error = ExpectedNotFound

\* A day-term-week query for a week the term lacks has failed.
C13_Witness ==
    /\ Searched /\ IsWeekSearch /\ EntriesAsked = {}
    /\ input.form.day = 2 /\ input.form.week = 3 /\ input.form.year = <<"2", "0", "2", "4", "-", "2", "5">>
    /\ ~result.success /\ parsed.type = "day-term-week"

\* The day the query writes exists in the calendar.
WrittenDayExists ==
    /\ input.form.m \in 1..12
    /\ input.form.d \in 1..DaysInMonth(input.form.y, input.form.m)

\* The entries of the table whose days, from the first to the last
\* inclusive, contain the day the query writes.
EntriesContaining ==
    IF ~WrittenDayExists THEN {}
    ELSE {e \in TableEntries :
             /\ e.first <= DaysFromCivil(input.form.y, input.form.m, input.form.d)
             /\ DaysFromCivil(input.form.y, input.form.m, input.form.d) <= e.last}

\* The lookup result names the entry.
NamesEntry(termWeek, e) ==
    /\ Truthy(termWeek) /\ ~Threw(termWeek)
    /\ GetProp(termWeek, "year").s = e.year
    /\ Str(GetProp(termWeek, "term").s) = e.term
    /\ GetProp(termWeek, "week").n = e.week

\* C14: for every week entry and every calendar day from its start to its end
\* inclusive, in every time zone, search of that day as an absolute date is a
\* single-date result with the term, week and year of the entry, and
\* findTermWeekForDate names the entry for the day given as an ISO string and
\* for the day given as a Date at local midnight.
C14_EveryDayOfAnEntryIsFound ==
    (Searched /\ IsDateSearch)
        => \A e \in EntriesContaining :
              /\ result.success /\ result.type = "single-date"
              /\ {"term", "week", "year"} \subseteq DOMAIN result
              /\ result.term = e.term /\ result.week = e.week /\ result.year = e.year
              /\ NamesEntry(findTermWeekForDate(
                     JsString(IsoChars(input.form.y, input.form.m, input.form.d))), e)
              /\ NamesEntry(findTermWeekForDate(
                     MakeDate(input.form.y, input.form.m - 1, input.form.d)), e)

\* C15: with the table loaded, search of a query that parses as a date is a
\* success of type single-date carrying the parsed ISO date; when no entry of
\* the table contains the date, its detailText is 'Outside term time' and it
\* has no term, week or year field.
C15_DateSearchSucceedsOutsideTermToo ==
    (Searched /\ IsDateSearch /\ parsed.type = "date")
        => /\ result.success /\ result.type = "single-date"
           /\ result.date = parsed.date
           /\ EntriesContaining = {}
                 => /\ result.detailText = <<"O", "u", "t", "s", "i", "d", "e", " ", "t", "e", "r", "m", " ", "t", "i", "m", "e">>
                    /\ DOMAIN result \cap {"term", "week", "year"} = {}

IsDayWeekSearch == IsWeekSearch /\ input.form.day \in 0..6

\* 'YYYY-MM-DD' of the day numbered n.
IsoOfDay(n) == IsoChars(CivilFromDays(n).y, CivilFromDays(n).m, CivilFromDays(n).d)

C17_DayStaysInsideWeek ==
    (Searched /\ IsDayWeekSearch)
        => \A e \in EntriesAsked :
              /\ result.success
                    => /\ e.first <= DayNumber(result.date)
                       /\ DayNumber(result.date) <= e.last
                       /\ Len(result.dates) = 1
                       /\ IsLocalMidnightOf(result.dates[1], DayNumber(result.date))
              /\ e.first + input.form.day > e.last
                    => /\ ~result.success
                       /\ result.error = <<"D", "a", "t", "e", " ", "f", "a", "l", "l", "s", " ", "o", "u", "t", "s", "i", "d", "e", " ", "t", "h", "e", " ", "s", "p", "e", "c", "i", "f", "i", "e", "d", " ", "w", "e", "e", "k">>

\* The Friday of the week that ends on its Wednesday has been searched.
C17_Witness ==
    /\ Searched /\ IsDayWeekSearch /\ input.form.day = 5
    /\ \E e \in EntriesAsked : e.first + 5 > e.last
    /\ ~result.success /\ result.error = OutsideWeekMsg

-----------------------------------------------------------------------------
(* The term service over the loaded table: one call with its arguments.    *)

\* Term names in several letter cases, shortened names, and names that are
\* other keys of a year record or no key at all.
TermNameArgs ==
    {<<"m", "i", "c", "h", "a", "e", "l", "m", "a", "s">>, <<"M", "i", "c", "h", "a", "e", "l", "m", "a", "s">>, <<"M", "I", "C", "H", "A", "E", "L", "M", "A", "S">>, <<"h", "I", "l", "A", "r", "Y">>, <<"T", "r", "i", "n", "i", "t", "y">>,
     <<"y", "e", "a", "r">>, <<"Y", "E", "A", "R">>, <<"m", "i", "c", "h">>, <<"s", "u", "m", "m", "e", "r">>, <<>>}

\* Days asked of findTermWeekForDate: as the string YYYY-MM-DD, and as the
\* Date of the local midnight.
DateArgs ==
    {[y |-> q.y, m |-> q.m, d |-> q.d, as |-> a] : q \in DayQueries, a \in {"string", "Date"}}

\* Instants at which getCurrentAcademicYear is called: early, at noon and
\* late (UTC) on the first, the fourth and the last day of every entry, and
\* on days outside term around the turn of June and of the calendar year.
NowArgs ==
    LET days == UNION {{e.first, e.first + 3, e.last} : e \in TableEntries}
                    \cup {DaysFromCivil(2025, 6, 30), DaysFromCivil(2025, 7, 1),
                          DaysFromCivil(2024, 12, 31), DaysFromCivil(2025, 1, 1),
                          DaysFromCivil(2099, 12, 31), DaysFromCivil(2025, 9, 1)}
    IN {d * MinutesPerDay + m : d \in days, m \in {30, 720, 1410}}

ServiceCalls ==
    {[op |-> "getTermData", year |-> y, term |-> t] :
        y \in {<<"2", "0", "2", "4", "-", "2", "5">>, <<"2", "0", "2", "6", "-", "2", "7">>, <<"2", "0", "3", "0", "-", "3", "1">>}, t \in TermNameArgs}
    \cup {[op |-> "getWeekData", year |-> y, term |-> t, week |-> w] :
             y \in SearchYears, t \in Range(TermOrder), w \in -1..14}
    \cup {[op |-> "findTermWeekForDate", date |-> d] : d \in DateArgs}
    \cup {[op |-> "getCurrentAcademicYear", now |-> n] : n \in NowArgs}

\* What the call returns or throws.
ServiceOut(c) ==
    CASE c.op = "getTermData" -> getTermData(JsString(c.year), JsString(c.term))
      [] c.op = "getWeekData" -> getWeekData(JsString(c.year), JsString(c.term), c.week)
      [] c.op = "findTermWeekForDate" ->
            findTermWeekForDate(IF c.date.as = "string"
                                THEN JsString(IsoChars(c.date.y, c.date.m, c.date.d))
                                ELSE MakeDate(c.date.y, c.date.m - 1, c.date.d))
      [] c.op = "getCurrentAcademicYear" -> getCurrentAcademicYear(c.now)

\* The state after loadTermsData() has resolved once, no lookup made.
InitService ==
    /\ termsData = TableInstance(1)
    /\ calls = [c \in CallIds |->
                  IF c = 1 THEN [pc |-> "resolved", seen |-> "parsed", ret |-> 1,
                                 fetched |-> TRUE, pending |-> {}, late |-> FALSE]
                  ELSE IdleCall]
    /\ fetches = 1
    /\ firstLoaded = 1
    /\ lookup = NoLookup
    /\ tzOffset \in TimeZones
    /\ InitParse
    /\ InitUi

ServiceCall ==
    /\ lookup = NoLookup
    /\ \E c \in ServiceCalls : lookup' = [op |-> c.op, call |-> c, out |-> ServiceOut(c)]
    /\ UNCHANGED <<termsData, calls, fetches, firstLoaded, tzOffset, parseVars, uiVars>>

NextService == ServiceCall

SpecService == InitService /\ [][NextService]_vars

-----------------------------------------------------------------------------
(* Properties of the lookups.                                              *)

\* The entries of the table whose days contain the day asked for.
EntriesOfDay(date) ==
    {e \in TableEntries :
        /\ e.first <= DaysFromCivil(date.y, date.m, date.d)
        /\ DaysFromCivil(date.y, date.m, date.d) <= e.last}

\* The place of an entry in the scan: years in table order, then
\* michaelmas, hilary, trinity, then the weeks upwards.
ScanRank(e) ==
    LET terms == TermsJson.props.terms
    IN 39 * Min({i \in DOMAIN terms : GetProp(terms[i], "year").s = e.year})
         + 13 * Min({i \in DOMAIN TermOrder : Str(TermOrder[i]) = e.term}) + e.week

\* C18: findTermWeekForDate(d) returns a result exactly when the days of some
\* entry, start and end included, contain d, and then for the first such
\* entry of the scan; getWeekData of the year, term and week returned is an
\* entry that contains d; for a d in no entry it returns null.
C18_ReverseLookupFindsFirstContainingEntry ==
    lookup.op = "findTermWeekForDate"
        => LET containing == EntriesOfDay(lookup.call.date)
           IN IF containing = {} THEN lookup.out = Null
              ELSE \E e \in containing :
                      /\ \A f \in containing : ScanRank(e) <= ScanRank(f)
                      /\ NamesEntry(lookup.out, e)
                      /\ getWeekData(GetProp(lookup.out, "year"), GetProp(lookup.out, "term"),
                                     GetProp(lookup.out, "week").n)
                            = WeekEntry(e.start, e.end)

\* The value of the key `name` in the record of the year asked for, when
\* the table has the year.
TermMapOf(year, name) ==
    LET terms == TermsJson.props.terms
        OfYears(hits) == IF hits = {} THEN Null ELSE GetProp(terms[Min(hits)], name)
    IN OfYears({i \in DOMAIN terms : GetProp(terms[i], "year").s = year})

\* C19: getTermData(year, name) returns the same week map for every
\* letter-case variant of a term name, and null for every name that is not
\* michaelmas, hilary or trinity in some letter case, names that are other
\* keys of the year record included.
C19_TermNameCaseInsensitiveElseNull ==
    lookup.op = "getTermData"
        => IF toLowerCase(lookup.call.term) \in Range(TermOrder)
           THEN lookup.out = OrNull(TermMapOf(lookup.call.year,
                                              Str(toLowerCase(lookup.call.term))))
           ELSE lookup.out = Null

\* C20: with the table loaded, getWeekData(year, term, w) returns null, and
\* does not throw, for every w outside 0..12 and for every year, term and w
\* without an entry; it returns an entry only for a w in 0..12, and then the
\* entry of that year, term and week.
C20_WeekOutsideRangeGivesNull ==
    lookup.op = "getWeekData"
        => LET entries == {e \in TableEntries :
                              /\ e.year = lookup.call.year
                              /\ e.term = Str(lookup.call.term)
                              /\ e.week = lookup.call.week}
           IN /\ ~Threw(lookup.out)
              /\ (lookup.call.week \notin 0..12 \/ entries = {}) => lookup.out = Null
              /\ lookup.out # Null
                    => /\ lookup.call.week \in 0..12
                       /\ \E e \in entries : lookup.out = WeekEntry(e.start, e.end)

\* Week 13 of a term of the table has been asked for.
C20_Witness ==
    /\ lookup.op = "getWeekData"
    /\ lookup.call.week = 13 /\ lookup.call.term = TermOrder[1]
    /\ lookup.call.year = <<"2", "0", "2", "6", "-", "2", "7">>
    /\ lookup.out = Null

\* The local calendar day of the instant of a getCurrentAcademicYear call.
Today == LocalCivil(lookup.call.now, tzOffset)

\* The year of the entries whose days contain today.
YearsOfToday ==
    {e.year : e \in {e \in TableEntries :
                        /\ e.first <= DaysFromCivil(Today.y, Today.m, Today.d)
                        /\ DaysFromCivil(Today.y, Today.m, Today.d) <= e.last}}

\* The academic year the calendar gives a day: Y-(Y+1 mod 100) from July,
\* (Y-1)-(Y mod 100) until June.
YearByCalendar(day) ==
    IF day.m \in 7..12 THEN NatChars(day.y) \o <<"-">> \o TwoDigits(day.y + 1)
    ELSE NatChars(day.y - 1) \o <<"-">> \o TwoDigits(day.y)

-----------------------------------------------------------------------------
(* Properties of the results of search and of their summaries.             *)

Summarized == summary # NoSummary

\* C22: getResultSummary returns 'Error: {error}' for every failure result,
\* and exactly '{displayText}', a newline and '{detailText}' for every
\* successful result, week-range and single-date alike.
C22_SummaryIsDisplayThenDetail ==
    Summarized
        => IF result.success
           THEN summary = result.displayText \o <<"\n">> \o result.detailText
           ELSE summary = <<"E", "r", "r", "o", "r", ":", " ">> \o result.error

\* search has returned, loaded table or not.
SearchDone == result # NoResult

\* C23: every failure result of search carries a non-empty error text and, in
\* its query field, the query that was passed to search, whether the parse
\* failed, the lookup missed or the day fell outside the week; a parse
\* failure carries the error text of the parser.
C23_FailureCarriesErrorAndQuery ==
    (SearchDone /\ "success" \in DOMAIN result /\ ~result.success)
        => /\ result.error # <<>>
           /\ result.query = query
           /\ parsed.type = "invalid" => result.error = MessageChars(parsed.error)

\* C26: search returns for every query value, string or not, and in every
\* state of the table, not loaded included: the value is a success result or
\* a failure result with an error message, and an error thrown by a lookup
\* inside (the table is not loaded) has become a failure.
C26_SearchNeverThrows ==
    SearchDone
        => /\ "success" \in DOMAIN result
           /\ result.success \/ ("error" \in DOMAIN result /\ result.error # <<>>)
           /\ (~Truthy(termsData) /\ parsed.type # "invalid")
                 => /\ ~result.success
                    /\ result.error = <<"T", "e", "r", "m", "s", " ", "d", "a", "t", "a", " ", "n", "o", "t", " ", "l", "o", "a", "d", "e", "d", ".", " ", "C", "a", "l", "l", " ", "l", "o", "a", "d", "T", "e", "r", "m", "s", "D", "a", "t", "a", "(", ")", " ", "f", "i", "r", "s", "t", ".">>

\* A week has been searched before the table was loaded.
C26_Witness ==
    /\ SearchDone /\ ~Truthy(termsData)
    /\ parsed.type = "term-week"
    /\ ~result.success /\ result.error = MessageChars(NotLoadedMsg)

\* C29: in every successful single-date result of a date query the date
\* field, the one element of dates and the day that displayText names are
\* the same calendar day, also when the parsed day does not exist in its
\* month or the month is outside 1..12.
C29_DateFieldAndDateAgree ==
    (SearchDone /\ parsed.type = "date" /\ "success" \in DOMAIN result /\ result.success)
        => /\ result.type = "single-date"
           /\ Len(result.dates) = 1
           /\ toISODateString(result.dates[1]) = result.date
           /\ result.displayText = formatDate(result.dates[1])

-----------------------------------------------------------------------------
(* The shape of what parseQuery returns.                                   *)

\* The fields of each of the four variants.
VariantFields(type) ==
    CASE type = "term-week" -> {"type", "week", "term", "year"}
      [] type = "date" -> {"type", "date"}
      [] type = "day-term-week" -> {"type", "dayOfWeek", "week", "term", "year"}
      [] type = "invalid" -> {"type", "error"}
      [] OTHER -> {}

\* C28: parseQuery returns one of the four variants term-week, date,
\* day-term-week and invalid for every input, and every invalid result
\* carries an error that is one of 'Empty or invalid query', 'Week number
\* must be between 0 and 12' and 'Could not parse query': the invalid values
\* without error of the sub-parsers do not reach the caller.
C28_OneOfFourVariants ==
    Done => /\ Returned(parsed)
            /\ parsed.type \in {"term-week", "date", "day-term-week", "invalid"}
            /\ DOMAIN parsed = VariantFields(parsed.type)
            /\ parsed.type = "invalid"
                  => parsed.error \in {EmptyMsg, WeekRangeMsg, CouldNotParseMsg}

\* A query written as a date that parseDateQuery rejected without an error
\* has come back with 'Could not parse query'.
C28_Witness ==
    /\ Done /\ IsDateInput
    /\ parseDateQuery(Normalized(query.s)) = Invalid
    /\ parsed = InvalidWith(CouldNotParseMsg)

-----------------------------------------------------------------------------
(* suggestions.js: generateSuggestions.  `now` is the instant `new Date()` *)
(* yields during the call.  A function returns a JavaScript array, or the  *)
(* error it throws.                                                        *)

JsArray(items) == [t |-> "array", items |-> items]

Suggestion(text, type, description) ==
    [text |-> text, type |-> type, description |-> description]

RECURSIVE Flatten(_)
Flatten(lists) == IF lists = <<>> THEN <<>> ELSE Head(lists) \o Flatten(Tail(lists))

\* The members of a set of positions, in increasing order.
RECURSIVE Ascending(_)
Ascending(S) == IF S = {} THEN <<>> ELSE <<Min(S)>> \o Ascending(S \ {Min(S)})

\* Array.prototype.slice(0, end) for an integer end.
sliceTo(list, end) ==
    IF end < 0 THEN SubSeq(list, 1, IF Len(list) + end < 0 THEN 0 ELSE Len(list) + end)
    ELSE SubSeq(list, 1, IF end < Len(list) THEN end ELSE Len(list))

\* getDefaultSuggestions.  getNextAcademicYear(currentYear) is computed and
\* not used; it does not fail for a string.
getDefaultSuggestions(now) ==
    LET With(currentYear) ==
            IF Threw(currentYear) THEN currentYear
            ELSE JsArray(<<
                Suggestion(<<"W", "e", "e", "k", " ", "1", " ", "M", "i", "c", "h", "a", "e", "l", "m", "a", "s", " ">> \o currentYear.s, "example",
                           <<"F", "i", "r", "s", "t", " ", "w", "e", "e", "k", " ", "o", "f", " ", "M", "i", "c", "h", "a", "e", "l", "m", "a", "s", " ", "t", "e", "r", "m">>),
                Suggestion(<<"W", "e", "e", "k", " ", "5", " ", "H", "i", "l", "a", "r", "y", " ">> \o currentYear.s, "example",
                           <<"F", "i", "f", "t", "h", " ", "w", "e", "e", "k", " ", "o", "f", " ", "H", "i", "l", "a", "r", "y", " ", "t", "e", "r", "m">>),
                Suggestion(<<"T", "r", "i", "n", "i", "t", "y", " ">> \o currentYear.s \o <<" ", "W", "e", "e", "k", " ", "8">>, "example",
                           <<"L", "a", "s", "t", " ", "w", "e", "e", "k", " ", "o", "f", " ", "T", "r", "i", "n", "i", "t", "y", " ", "f", "u", "l", "l", " ", "t", "e", "r", "m">>),
                Suggestion(<<"T", "u", "e", "s", "d", "a", "y", " ", "W", "e", "e", "k", " ", "3">>, "example",
                           <<"S", "p", "e", "c", "i", "f", "i", "c", " ", "d", "a", "y", " ", "i", "n", " ", "a", " ", "t", "e", "r", "m", " ", "w", "e", "e", "k">>)>>)
    IN With(getCurrentAcademicYear(now))

\* terms of getTermSuggestions.
suggestionTerms ==
    <<[name |-> <<"M", "i", "c", "h", "a", "e", "l", "m", "a", "s">>, abbrev |-> {<<"m", "i", "c", "h">>, <<"m", "t">>}],
      [name |-> <<"H", "i", "l", "a", "r", "y">>, abbrev |-> {<<"h", "i", "l">>, <<"h", "t">>}],
      [name |-> <<"T", "r", "i", "n", "i", "t", "y">>, abbrev |-> {<<"t", "r", "i", "n">>, <<"t", "t">>}]>>

getTermSuggestions(typed, now) ==
    LET Matches(term) ==
            \/ startsWith(toLowerCase(term.name), typed)
            \/ \E a \in term.abbrev : startsWith(a, typed)
        OfTerm(term, currentYear) ==
            IF ~Matches(term) THEN <<>>
            ELSE <<Suggestion(term.name \o <<" ">> \o currentYear, "term",
                              term.name \o <<" ", "t", "e", "r", "m", " ", "o", "f", " ">> \o currentYear),
                   Suggestion(<<"W", "e", "e", "k", " ", "1", " ">> \o term.name \o <<" ">> \o currentYear, "term-week",
                              <<"F", "i", "r", "s", "t", " ", "w", "e", "e", "k", " ", "o", "f", " ">> \o term.name \o <<" ", "t", "e", "r", "m">>)>>
                 \o IF Len(typed) > 2
                    THEN <<Suggestion(<<"W", "e", "e", "k", " ", "5", " ">> \o term.name \o <<" ">> \o currentYear,
                                      "term-week",
                                      <<"F", "i", "f", "t", "h", " ", "w", "e", "e", "k", " ", "o", "f", " ">> \o term.name \o <<" ", "t", "e", "r", "m">>)>>
                    ELSE <<>>
        With(currentYear) ==
            IF Threw(currentYear) THEN currentYear
            ELSE JsArray(Flatten([i \in DOMAIN suggestionTerms |->
                                     OfTerm(suggestionTerms[i], currentYear.s)]))
    IN With(getCurrentAcademicYear(now))

\* weeks of getWeekSuggestions.
genericWeeks == <<0, 1, 4, 5, 8>>

getWeekSuggestions(typed, now) ==
    LET OfWeekAndTerm(weekNum, name, currentYear) ==
            Suggestion(<<"W", "e", "e", "k", " ">> \o NatChars(weekNum) \o <<" ">> \o name \o <<" ">> \o currentYear,
                       "week",
                       <<"W", "e", "e", "k", " ">> \o NatChars(weekNum) \o <<" ", "o", "f", " ">> \o name \o <<" ", "t", "e", "r", "m">>)
        Generic(week) ==
            Suggestion(<<"W", "e", "e", "k", " ">> \o NatChars(week), "week-partial",
                       IF week = 0 THEN <<"W", "e", "e", "k", " ", "b", "e", "f", "o", "r", "e", " ", "f", "u", "l", "l", " ", "t", "e", "r", "m">>
                       ELSE IF week = 8 THEN <<"L", "a", "s", "t", " ", "w", "e", "e", "k", " ", "o", "f", " ", "f", "u", "l", "l", " ", "t", "e", "r", "m">>
                       ELSE <<"W", "e", "e", "k", " ">> \o NatChars(week) \o <<" ", "o", "f", " ", "t", "e", "r", "m">>)
        OfMatch(weekMatch, currentYear) ==
            IF weekMatch.found /\ parseIntDigits(weekMatch.g1) <= 12
            THEN [i \in DOMAIN suggestionTerms |->
                     OfWeekAndTerm(parseIntDigits(weekMatch.g1), suggestionTerms[i].name,
                                   currentYear)]
            ELSE [i \in DOMAIN genericWeeks |-> Generic(genericWeeks[i])]
        With(currentYear) ==
            IF Threw(currentYear) THEN currentYear
            ELSE JsArray(OfMatch(MatchWeekThenNumber(typed), currentYear.s))
    IN IF startsWith(typed, <<"w">>) \/ startsWith(typed, <<"w", "e", "e", "k">>)
       THEN With(getCurrentAcademicYear(now))
       ELSE JsArray(<<>>)

\* days of getDaySuggestions.
suggestionDays ==
    <<<<"M", "o", "n", "d", "a", "y">>, <<"T", "u", "e", "s", "d", "a", "y">>, <<"W", "e", "d", "n", "e", "s", "d", "a", "y">>, <<"T", "h", "u", "r", "s", "d", "a", "y">>, <<"F", "r", "i", "d", "a", "y">>, <<"S", "a", "t", "u", "r", "d", "a", "y">>,
      <<"S", "u", "n", "d", "a", "y">>>>

getDaySuggestions(typed, now) ==
    LET OfDay(day, currentYear) ==
            IF ~startsWith(toLowerCase(day), typed) THEN <<>>
            ELSE <<Suggestion(day \o <<" ", "W", "e", "e", "k", " ", "1">>, "day-partial", day \o <<" ", "o", "f", " ", "W", "e", "e", "k", " ", "1">>)>>
                 \o IF Len(typed) > 2
                    THEN <<Suggestion(day \o <<" ", "W", "e", "e", "k", " ", "5", " ", "M", "i", "c", "h", "a", "e", "l", "m", "a", "s", " ">> \o currentYear, "day-week",
                                      day \o <<" ", "o", "f", " ", "W", "e", "e", "k", " ", "5", ",", " ", "M", "i", "c", "h", "a", "e", "l", "m", "a", "s", " ", "t", "e", "r", "m">>)>>
                    ELSE <<>>
        With(currentYear) ==
            IF Threw(currentYear) THEN currentYear
            ELSE JsArray(Flatten([i \in DOMAIN suggestionDays |->
                                     OfDay(suggestionDays[i], currentYear.s)]))
    IN With(getCurrentAcademicYear(now))

\* getRelevantMonths: the current month and the next three.
getRelevantMonths(now) ==
    [i \in 1..4 |-> MonthNamesFull[((LocalCivil(now, tzOffset).m - 1 + (i - 1)) % 12) + 1]]

\* getDateFormatSuggestions; it makes no lookup and throws nothing.
getDateFormatSuggestions(typed, now) ==
    LET currentYear == NumChars(LocalCivil(now, tzOffset).y)
        hasNumber == \E i \in DOMAIN typed : IsDigit(typed[i])
        \* /^(\d{1,2})/
        dayDigits == IF IsDigit(CharAt(typed, 1))
                     THEN SubSeq(typed, 1, IF IsDigit(CharAt(typed, 2)) THEN 2 ELSE 1)
                     ELSE <<>>
        OfDay(day, months) ==
            IF day >= 1 /\ day <= 31
            THEN [i \in DOMAIN months |->
                     Suggestion(NatChars(day) \o <<" ">> \o months[i] \o <<" ">> \o currentYear,
                                "date", <<"D", "a", "t", "e", " ", "i", "n", " ">> \o months[i])]
            ELSE <<>>
        OfMonth(month) ==
            IF startsWith(toLowerCase(month), typed)
            THEN <<Suggestion(<<"1", "5", " ">> \o month \o <<" ">> \o currentYear, "date",
                              <<"M", "i", "d", "-">> \o month \o <<" ", "d", "a", "t", "e">>)>>
            ELSE <<>>
    IN JsArray((IF hasNumber /\ dayDigits # <<>>
                THEN OfDay(parseIntDigits(dayDigits), getRelevantMonths(now))
                ELSE <<>>)
               \o Flatten([i \in DOMAIN MonthNamesFull |-> OfMonth(MonthNamesFull[i])]))

\* Array.from(new Map(suggestions.map(s => [s.text, s])).values()): one
\* entry per text, at the place of the first and with the value of the last.
uniqueByText(list) ==
    LET LastOf(i) == list[CHOOSE j \in DOMAIN list :
                              /\ list[j].text = list[i].text
                              /\ \A k \in DOMAIN list : list[k].text = list[i].text => k <= j]
        Of(firsts) == [n \in DOMAIN firsts |-> LastOf(firsts[n])]
    IN Of(Ascending({i \in DOMAIN list : \A j \in 1..(i - 1) : list[j].text # list[i].text}))

\* options.maxSuggestions || 8.
maxSuggestionsOf(options) ==
    LET Of(m) == IF m.t = "number" /\ m.n # 0 THEN m.n ELSE 8
    IN Of(GetProp(options, "maxSuggestions"))

\* generateSuggestions(input, options); options undefined is the default {}.
generateSuggestions(typed, options, now) ==
    LET Limit(all) ==
            JsArray(sliceTo(uniqueByText(all),
                            maxSuggestionsOf(IF options = Undefined THEN JsObject(<<>>)
                                             ELSE options)))
        Dates(sofar, normalized) ==
            Limit(sofar \o getDateFormatSuggestions(normalized, now).items)
        Days(sofar, days, normalized) ==
            IF Threw(days) THEN days ELSE Dates(sofar \o days.items, normalized)
        Weeks(sofar, weeks, normalized) ==
            IF Threw(weeks) THEN weeks
            ELSE Days(sofar \o weeks.items, getDaySuggestions(normalized, now), normalized)
        Terms(terms, normalized) ==
            IF Threw(terms) THEN terms
            ELSE Weeks(terms.items, getWeekSuggestions(normalized, now), normalized)
    IN IF ~Truthy(typed) THEN getDefaultSuggestions(now)
       ELSE IF typed.t # "string"
            THEN Throw("TypeError: input.toLowerCase is not a function")
       ELSE IF Len(typed.s) < 2 THEN getDefaultSuggestions(now)
       ELSE Terms(getTermSuggestions(trim(toLowerCase(typed.s)), now),
                  trim(toLowerCase(typed.s)))

-----------------------------------------------------------------------------
(* generateSuggestions called from the search box, before the table is     *)
(* loaded and after.                                                       *)

\* Texts typed into the search box, and values that are no strings.
SuggestInputs ==
    {JsString(s) : s \in {<<>>, <<"w">>, <<"m">>, <<"w", "e">>, <<"w", "e", "e", "k">>, <<"w", "e", "e", "k", " ", "1">>, <<"W", "e", "e", "k", " ", "5", " ">>,
                          <<"w", "5">>, <<"w", "k", " ", "1", "3">>, <<"m", "i">>, <<"M", "i", "c">>, <<"m", "t">>, <<"t", "t">>, <<"h", "i", "l">>,
                          <<"t">>, <<"t", "u">>, <<"t", "u", "e">>, <<"t", "h">>, <<"s", "u", "n">>, <<"m", "a">>, <<"m", "a", "r">>,
                          <<"m", "a", "r", "c", "h">>, <<"1", "5">>, <<"5", " ", "m">>, <<"3", "2">>, <<"0">>, <<" ", " ">>, <<"j", "u">>, <<"z", "z">>}}
        \cup {Null, Undefined, JsNumber(42), JsObject([text |-> JsString(<<"w", "e">>)])}

\* The options argument: absent, empty, or with maxSuggestions.
SuggestOptions ==
    {Undefined, JsObject(<<>>)}
        \cup {JsObject([maxSuggestions |-> JsNumber(n)]) : n \in {0, 1, 3, 8, 20}}

\* Instants of `new Date()`: in term, in the summer, on New Year's Eve late
\* in the evening, and in November (the relevant months wrap).
SuggestNows ==
    {DaysFromCivil(2024, 10, 15) * MinutesPerDay + 720,
     DaysFromCivil(2025, 7, 20) * MinutesPerDay + 720,
     DaysFromCivil(2025, 12, 31) * MinutesPerDay + 1410,
     DaysFromCivil(2026, 11, 1) * MinutesPerDay + 30}

InitSuggest ==
    /\ Loaded \/ InitLoad
    /\ InitParse
    /\ InitUi

\* The search box calls generateSuggestions with one of the given arguments.
SuggestAmong(inputs, optionsGiven, nows) ==
    /\ suggested = NoSuggestion
    /\ \E typed \in inputs, options \in optionsGiven, now \in nows :
           suggested' = [op |-> "generateSuggestions", input |-> typed, options |-> options,
                         now |-> now, out |-> generateSuggestions(typed, options, now)]
    /\ UNCHANGED <<loadVars, parseVars, themeVars>>

Suggest == SuggestAmong(SuggestInputs, SuggestOptions, SuggestNows)

NextSuggest == Suggest

SpecSuggest == InitSuggest /\ [][NextSuggest]_vars

-----------------------------------------------------------------------------
(* Properties of generateSuggestions.                                      *)

Suggested == suggested.op = "generateSuggestions"

\* The cap the caller asked for: maxSuggestions, or 8 without one.
CapAsked ==
    IF GetProp(suggested.options, "maxSuggestions") = Undefined THEN 8
    ELSE GetProp(suggested.options, "maxSuggestions").n

\* C24: for every input, inputs shorter than two characters included, and
\* every maxSuggestions option, the list generateSuggestions returns has at
\* most maxSuggestions entries (at most 8 when the option is absent) and no
\* two entries with the same text.
C24_AtMostMaxAndNoDuplicates ==
    (Suggested /\ suggested.out.t = "array")
        => /\ Len(suggested.out.items) <= CapAsked
           /\ \A i, j \in DOMAIN suggested.out.items :
                 suggested.out.items[i].text = suggested.out.items[j].text => i = j

\* C25: generateSuggestions raises no failure for any input in any state of
\* the table, loaded or not: it returns a list.
C25_SuggestionsNeverThrow ==
    Suggested => suggested.out.t = "array"

-----------------------------------------------------------------------------
(* themeManager.js: the singleton ThemeManager, the localStorage item      *)
(* 'oxcal-theme' it keeps the preference in, the media query               *)
(* '(prefers-color-scheme: dark)' it listens to, and the parts of the      *)
(* document applyTheme writes.                                             *)

\* getStoredTheme: localStorage.getItem, null when localStorage throws.
getStoredTheme == IF localStorage.available THEN localStorage.item ELSE Null

\* storeTheme: localStorage.setItem, nothing when localStorage throws.
storeTheme(storage, theme) ==
    IF storage.available THEN [storage EXCEPT !.item = theme] ELSE storage

\* clearStoredTheme.
clearStoredTheme ==
    IF localStorage.available THEN [localStorage EXCEPT !.item = Null] ELSE localStorage

\* getSystemPreference, for a media query that matches or not.
getSystemPreference(matches) ==
    IF matchMedia.supported /\ matches THEN THEME_DARK ELSE THEME_LIGHT

\* applyTheme: the document after it.
applyTheme(theme) ==
    IF theme = THEME_DARK
    THEN [dataTheme |-> THEME_DARK, rootClass |-> "theme-dark", bodyClass |-> "dark-mode",
          metaThemeColor |-> "#1a1a1a"]
    ELSE [dataTheme |-> THEME_LIGHT, rootClass |-> "theme-light", bodyClass |-> "light-mode",
          metaThemeColor |-> "#002147"]

\* setTheme(theme, store) run on the manager, a storage and the document:
\* what the three are after it.
setTheme(theme, store, storage) ==
    IF theme # THEME_LIGHT /\ theme # THEME_DARK
    THEN [manager |-> themeManager, storage |-> storage, document |-> document]
    ELSE [manager |-> [themeManager EXCEPT !.currentTheme = theme],
          storage |-> IF store THEN storeTheme(storage, theme) ELSE storage,
          document |-> applyTheme(theme)]

\* The themes a caller passes to setTheme: the two themes and another name.
ThemeArgs == {THEME_LIGHT, THEME_DARK, JsString(<<"a", "u", "t", "o">>)}

\* init(), called by the application once the DOM is ready.
ThemeInit ==
    /\ ~themeManager.initialized
    /\ LET Start(theme) ==
               /\ themeManager' = [currentTheme |-> theme, initialized |-> TRUE]
               /\ document' = applyTheme(theme)
       IN Start(IF Truthy(getStoredTheme) THEN getStoredTheme
                ELSE getSystemPreference(matchMedia.matches))
    /\ matchMedia' = IF matchMedia.supported
                     THEN [matchMedia EXCEPT !.listeners = @ + 1]
                     ELSE matchMedia
    /\ UNCHANGED <<localStorage, userChose, suggested, loadVars, parseVars>>

\* The operating system changes its colour scheme; the browser tells the
\* listener that init registered.
SystemChange ==
    /\ matchMedia.supported
    /\ matchMedia' = [matchMedia EXCEPT !.matches = ~matchMedia.matches]
    /\ IF matchMedia.listeners > 0 /\ ~Truthy(getStoredTheme)
       THEN LET Set(after) ==
                    /\ themeManager' = after.manager
                    /\ localStorage' = after.storage
                    /\ document' = after.document
            IN Set(setTheme(IF ~matchMedia.matches THEN THEME_DARK ELSE THEME_LIGHT,
                            TRUE, localStorage))
       ELSE UNCHANGED <<themeManager, localStorage, document>>
    /\ UNCHANGED <<userChose, suggested, loadVars, parseVars>>

\* The user clicks the theme button: toggle().
Toggle ==
    /\ themeManager.initialized
    /\ LET Set(after) ==
               /\ themeManager' = after.manager
               /\ localStorage' = after.storage
               /\ document' = after.document
       IN Set(setTheme(IF themeManager.currentTheme = THEME_DARK THEN THEME_LIGHT
                       ELSE THEME_DARK,
                       TRUE, localStorage))
    /\ userChose' = TRUE
    /\ UNCHANGED <<matchMedia, suggested, loadVars, parseVars>>

\* A caller sets a theme: setTheme(theme, store).
SetTheme ==
    /\ themeManager.initialized
    /\ \E theme \in ThemeArgs, store \in BOOLEAN :
           LET Set(after) ==
                   /\ themeManager' = after.manager
                   /\ localStorage' = after.storage
                   /\ document' = after.document
           IN /\ Set(setTheme(theme, store, localStorage))
              /\ userChose' = (userChose \/ theme \in {THEME_LIGHT, THEME_DARK})
    /\ UNCHANGED <<matchMedia, suggested, loadVars, parseVars>>

\* resetToSystem(): the stored preference is cleared and the system's theme
\* set without being stored.
ResetToSystem ==
    /\ themeManager.initialized
    /\ LET Set(after) ==
               /\ themeManager' = after.manager
               /\ localStorage' = after.storage
               /\ document' = after.document
       IN Set(setTheme(getSystemPreference(matchMedia.matches), FALSE, clearStoredTheme))
    /\ UNCHANGED <<matchMedia, userChose, suggested, loadVars, parseVars>>

\* A browser with or without localStorage and the media query, a light or
\* dark system, and the preference an earlier session may have left.
InitTheme ==
    /\ InitLoad
    /\ InitParse
    /\ suggested = NoSuggestion
    /\ themeManager = NewThemeManager
    /\ localStorage \in [available : BOOLEAN, item : {Null, THEME_LIGHT, THEME_DARK}]
    /\ matchMedia \in [supported : BOOLEAN, matches : BOOLEAN, listeners : {0}]
    /\ document = NewDocument
    /\ userChose = Truthy(getStoredTheme)

NextTheme == ThemeInit \/ SystemChange \/ Toggle \/ SetTheme \/ ResetToSystem

SpecTheme == InitTheme /\ [][NextTheme]_vars

-----------------------------------------------------------------------------
(* Properties of the theme manager.                                        *)

\* The step is a change of the system's colour scheme after init.
SystemChanged == themeManager.initialized /\ matchMedia'.matches # matchMedia.matches

\* C30: as long as the user has never chosen a theme (no toggle, no explicit
\* setTheme), every change of the system's colour scheme after init switches
\* the current theme to the system's, however many changes come in a row, and
\* none of them creates a stored preference; once the user has chosen, a
\* change of the system no longer alters the theme.
C30_FollowsSystemUntilUserChooses ==
    [][SystemChanged
          => IF userChose
             THEN themeManager'.currentTheme = themeManager.currentTheme
             ELSE /\ themeManager'.currentTheme = getSystemPreference(matchMedia'.matches)
                  /\ localStorage' = localStorage]_vars

-----------------------------------------------------------------------------
(* The application: loads, lookups, parses, searches and suggestions       *)
(* interleaved in any order, from the start of the page.  searchMultiple   *)
(* is queries.map(search): one search per query.                           *)

\* The queries of the application's search box.
AppInputs ==
    {[form |-> f, style |-> PlainStyle] :
        f \in {WeekQuery(-1, 1, TermOrder[1], <<"2", "0", "2", "4", "-", "2", "5">>),
               DateQuery(<<"2", "0", "2", "4", "-", "1", "0", "-", "1", "5">>, 2024, 10, 15)}}

InitApp ==
    /\ InitLoad
    /\ tzOffset = 60
    /\ input \in AppInputs
    /\ query = NoQuery
    /\ parsed = NotParsed
    /\ result = NoResult
    /\ summary = NoSummary
    /\ InitUi

NextApp ==
    \/ \E c \in 1..MaxLookupCalls : CallLoad(c)
    \/ \E c \in 1..MaxLookupCalls : FetchSettles(c)
    \/ \E c \in 1..MaxLookupCalls : JsonSettles(c)
    \/ Lookup
    \/ ParseQuery
    \/ Search
    \/ SuggestAmong({JsString(<<"m", "i">>)}, {Undefined}, LookupNows)

SpecApp == InitApp /\ [][NextApp]_vars

\* C27: after a successful load no call of parseQuery, search,
\* searchMultiple, generateSuggestions, of a lookup or of loadTermsData
\* changes the contents of the loaded table or replaces its instance.
C27_LoadedTableIsNeverReplaced ==
    [][Truthy(termsData) => termsData' = termsData]_vars

=============================================================================
